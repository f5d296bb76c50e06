----------------------------- MODULE MCSessionLife -----------------------------
(* A small instance of SessionLife for TLC.                                *)
EXTENDS SessionLife

Units  == {"cipher", "hash"}
Hashes == {"hash"}
Errors == {"EIO"}

\* Every pair of algorithms, with no key, the longest keys and keys one byte
\* longer than allowed.
Sops ==
  [cipher : {"none", "block", "stream", "aead"}, mac : {"none", "digest", "hmac"},
   keylen : {0, 2, 3}, mackeylen : {0, 1, 3, 4}, mackey : BOOLEAN]
================================================================================
