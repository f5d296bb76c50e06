------------------------------ MODULE MCCryptRun ------------------------------
(* Small instances of CryptRun for TLC.                                    *)
EXTENDS CryptRun

\* A session with both, one with a hash and one with a cipher only.
MCSession == {"both", "hash", "cipher"}
MCCiphers == {"both", "cipher"}
MCHashes  == {"both", "hash"}

\* No data, one page, two pages.
MCData == {<<>>, << <<"a">> >>, << <<"b">>, <<"c">> >>}

\* No data, two pages.
LongData == {<<>>, << <<"b">>, <<"c">> >>}

SomeFlags  == {{}, {"update"}, {"update", "reset"}, {"final"}}
WithNoZc   == {{}, {"no_zc"}}

MixedOps == {<<"both", "encrypt">>, <<"both", "decrypt">>, <<"hash", "encrypt">>,
             <<"hash", "decrypt">>, <<"cipher", "encrypt">>}
HashOps  == {<<"hash", "encrypt">>}

AllFaults  == {"user", "crypto", "pin"}
NoFaults   == {}
================================================================================
