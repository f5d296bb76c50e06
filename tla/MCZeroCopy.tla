------------------------------ MODULE MCZeroCopy ------------------------------
(* Small instances of ZeroCopy for TLC.                                    *)
EXTENDS ZeroCopy

\* Buffers at every offset of a page of four bytes, of up to three pages, in
\* place or apart, NULL or empty.
Plain ==
  {r \in [mode : {"plain"}, src : {0, 4, 5, 7}, slen : {0, 1, 4, 6, 9},
          dst : {0, 4, 5, 7, 18}, dlen : {0, 1, 4, 6, 9}] :
     r.src = r.dst \/ r.dst \in {0, 18}}

\* One buffer; a header of zero to three bytes, that may reach into the next
\* page, be the whole buffer or more; payloads IntMod away from the buffer, and a
\* NULL buffer with a payload just after it.
Tls  == [mode : {"tls"}, src : {0}, slen : {0}, dst : {0, 4, 7}, dlen : {0, 1, 6, 9}]
Srtp == [mode : {"srtp"}, src : {0, 4, 6, 7, 20}, slen : {0, 2, 4, 9},
         dst : {0, 1, 4, 7, 8, 9, 10, 20, 21}, dlen : {0, 3}]

Buffers == Plain \cup Tls \cup Srtp

AllFaults   == {"array", "pin", "partial", "output"}
================================================================================
