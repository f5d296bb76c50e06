------------------------------- MODULE ZeroCopy -------------------------------
(***************************************************************************)
(* Zero-copy access to user memory (zc.c, util.c and the buffers of        *)
(* authenc.c): get_userbuf pins the pages of the source and destination    *)
(* buffers and describes them in the session's scatterlist, get_userbuf_tls*)
(* does so for one buffer and get_userbuf_srtp for one buffer twice, whole *)
(* and from its payload on; release_user_pages drops the pins.  The        *)
(* session, and with it the arrays, is locked all the time and outlives    *)
(* many requests of all three kinds.                                       *)
(*                                                                         *)
(* Memory is bytes 0, 1, 2, ... in pages of PageSize bytes; address 0 is   *)
(* the NULL pointer.  Slots and scatterlist entries are numbered from 1.   *)
(***************************************************************************)
EXTENDS Integers, Sequences, FiniteSets

CONSTANTS
  PageSize,     \* PAGE_SIZE
  Prealloc,     \* DEFAULT_PREALLOC_PAGES
  MaxPages,     \* largest array the model lets krealloc return
  MaxDiff,      \* MAX_SRTP_AUTH_DATA_DIFF
  IntMod,       \* 2^32: how many values an int has
  Request,      \* the buffers applications pass: [mode, src, slen, dst, dlen].
                \* For "tls" dst is the only one, for "srtp" src is auth_src,
                \* slen is auth_len and dst is the payload
  Faults        \* which failures happen: "array", "pin", "partial", "output"

ASSUME ZeroCopyAssumption ==
  /\ PageSize \in Nat \ {0}
  /\ Prealloc \in Nat \ {0}
  /\ MaxPages \in Nat
  /\ MaxDiff \in Nat /\ IntMod \in Nat /\ 2 * MaxDiff < IntMod
  /\ Request \subseteq [mode : {"plain", "tls", "srtp"}, src : Nat, slen : Nat,
                        dst : Nat, dlen : Nat]
  /\ Faults \subseteq {"array", "pin", "partial", "output"}

VARIABLES
  array_size,      \* entries of ses->pages and ses->sg
  used_pages,      \* ses->used_pages
  readonly_pages,  \* ses->readonly_pages
  held,            \* slots of ses->pages pinned by the current request
  sg,              \* the scatterlist entries written, by entry number
  dst_sg,          \* SRTP: the entry the payload starts in, 0 before it is known
  marked,          \* entries the request marked as the end of an empty list
  stale,           \* the first entry of ses->sg, as the last request left it
  left,            \* bytes __get_userbuf still has to describe
  req,             \* the current request, NULL buffers given length 0
  pc,
  torn,            \* history: the pages of a request were not pinned as counted
  unpinned,        \* put_page was called on a slot that was not pinned
  leaked           \* a request ended with pages still pinned

pinning == <<array_size, used_pages, readonly_pages, held, torn, unpinned,
             leaked>>
lists == <<sg, dst_sg, marked, stale>>
vars == <<pinning, lists, left, req, pc>>

NoEntry   == [page |-> 0, offset |-> 0, length |-> 0]   \* as kzalloc leaves it
NoRequest == [mode |-> "plain", src |-> 0, slen |-> 0, dst |-> 0, dlen |-> 0]

Init ==
  /\ array_size     = Prealloc
  /\ used_pages     = 0
  /\ readonly_pages = 0
  /\ held           = {}
  /\ sg             = [n \in {} |-> 0]
  /\ dst_sg         = 0
  /\ marked         = {}
  /\ stale          = NoEntry
  /\ left           = 0
  /\ req            = NoRequest
  /\ pc             = "idle"
  /\ torn           = FALSE
  /\ unpinned       = FALSE
  /\ leaked         = FALSE

-----------------------------------------------------------------------------
\* PAGECOUNT(buf, buflen), and the macro if it divided the length.
PageCountByLength(buf, buflen) ==
  IF buflen = 0 THEN 0 ELSE ((buflen - 1) \div PageSize) + 1

PageCount(buf, buflen) ==
  IF buflen = 0
    THEN 0
    ELSE ((buf + buflen - 1) \div PageSize) - (buf \div PageSize) + 1

PageOffset(buf) == buf % PageSize

Larger(a, b)  == IF a < b THEN b ELSE a
Smaller(a, b) == IF a < b THEN a ELSE b

InPlace == req.src = req.dst

\* SRTP with auth_src NULL.
NullAuth == req.mode = "srtp" /\ req.src = 0

\* diff = (int)(caop->src - caop->auth_src), as an unsigned number: what is
\* negative as an int is above MaxDiff.
Diff(r) == (r.dst - r.src) % IntMod

\* pagecount of get_userbuf_srtp.
AuthPages == PageCount(req.src, req.slen)

\* The buffer being described at pc: its address, its length, the number of
\* pages asked for and the first slot it uses.  In place, the larger of the
\* two lengths is taken.
Buffer ==
  IF pc \in {"dst", "dst_sg"}
    THEN [addr |-> req.dst, len |-> req.dlen,
          count |-> used_pages - readonly_pages, first |-> readonly_pages + 1]
    ELSE [addr |-> req.src,
          len |-> IF InPlace /\ req.mode # "srtp"
                    THEN Larger(req.slen, req.dlen) ELSE req.slen,
          count |-> IF req.mode = "srtp" THEN AuthPages
                    ELSE IF InPlace THEN used_pages ELSE readonly_pages,
          first |-> 1]

\* The call is over; the caller has the error, or has finished with the pages.
End ==
  /\ held'   = {}
  /\ stale'  = IF 1 \in DOMAIN sg THEN sg[1] ELSE stale
  /\ marked' = {}
  /\ sg'     = [n \in {} |-> 0]
  /\ dst_sg' = 0
  /\ left'   = 0
  /\ req'    = NoRequest
  /\ pc'     = "idle"

-----------------------------------------------------------------------------
(* get_userbuf                                                             *)

\* get_userbuf if it counted only the destination's pages.
StartCountsOutput(r) ==
  /\ pc = "idle"
  /\ r.mode = "plain"
  /\ req' = r
  /\ used_pages' = PageCount(r.dst, r.dlen)
  /\ readonly_pages' = IF r.src = r.dst THEN 0 ELSE PageCount(r.src, r.slen)
  /\ pc' = IF used_pages' > array_size THEN "adjust" ELSE "src"
  /\ UNCHANGED <<array_size, held, torn, unpinned, leaked, lists, left>>

\* NULL buffers get length 0; the pages of both buffers are counted, in place
\* only once; the arrays are enlarged first if they are too small.
Start(r) ==
  /\ pc = "idle"
  /\ r.mode = "plain"
  /\ LET s == [r EXCEPT !.slen = IF r.src = 0 THEN 0 ELSE r.slen,
                        !.dlen = IF r.dst = 0 THEN 0 ELSE r.dlen]
         n == PageCount(s.src, s.slen)
         m == PageCount(s.dst, s.dlen)
     IN  /\ req' = s
         /\ used_pages' = IF s.src = s.dst THEN Larger(n, m) ELSE n + m
         /\ readonly_pages' = IF s.src = s.dst THEN 0 ELSE n
         /\ pc' = IF used_pages' > array_size THEN "adjust" ELSE "src"
  /\ UNCHANGED <<array_size, held, torn, unpinned, leaked, lists, left>>

\* get_userbuf_tls: a NULL or empty buffer is refused, and the arrays are
\* always reallocated.
StartTls(r) ==
  /\ pc = "idle"
  /\ r.mode = "tls"
  /\ r.dst # 0 /\ r.dlen # 0
  /\ req' = [r EXCEPT !.src = r.dst, !.slen = 0]
  /\ used_pages' = PageCount(r.dst, r.dlen)
  /\ readonly_pages' = 0
  /\ pc' = "adjust"
  /\ UNCHANGED <<array_size, held, torn, unpinned, leaked, lists, left>>

\* get_userbuf_srtp: the payload starts at most MaxDiff bytes into the
\* authenticated data, as far as the low 32 bits of the difference tell.
\* used_pages is set only once the pages are pinned.
StartSrtp(r) ==
  /\ pc = "idle"
  /\ r.mode = "srtp"
  /\ r.dst # 0 \/ r.src # 0
  /\ r.dlen # 0 /\ r.slen # 0
  /\ Diff(r) <= MaxDiff
  /\ req' = r
  /\ pc' = "adjust"
  /\ UNCHANGED <<pinning, lists, left>>

\* The entries adjust_sg_array is asked for: SRTP lists its pages twice.
Wanted == IF req.mode = "srtp" THEN 2 * AuthPages ELSE used_pages

\* adjust_sg_array if it doubled the size only once.
AdjustOnce ==
  /\ pc = "adjust"
  /\ array_size' = 2 * array_size
  /\ pc' = "src"
  /\ UNCHANGED <<used_pages, readonly_pages, held, torn, unpinned, leaked, lists,
                 left, req>>

\* adjust_sg_array: the size is doubled until it is large enough.
Adjust ==
  /\ pc = "adjust"
  /\ \E n \in array_size..MaxPages :
       /\ \E k \in 0..MaxPages : n = array_size * 2^k
       /\ n >= Wanted
       /\ n = array_size \/ n \div 2 < Wanted
       /\ array_size' = n
  /\ pc' = "src"
  /\ UNCHANGED <<used_pages, readonly_pages, held, torn, unpinned, leaked, lists,
                 left, req>>

\* krealloc of one of the arrays fails; array_size keeps its value.
AdjustFails ==
  /\ pc = "adjust"
  /\ "array" \in Faults
  /\ End
  /\ UNCHANGED <<array_size, used_pages, readonly_pages, torn, unpinned, leaked>>

\* What follows once the source, or the only buffer, is described.
AfterBuffer ==
  IF NullAuth THEN "stale"
  ELSE IF req.mode = "srtp" THEN "copy"
  ELSE IF pc \in {"src", "src_sg"} /\ ~InPlace THEN "dst" ELSE "use"

\* __get_userbuf of an empty or NULL buffer does nothing but end the list, with
\* sg_mark_end of the entry it was given.  get_userbuf does not call it for a
\* NULL buffer, but for one in place.
SkipBuffer ==
  /\ pc \in {"src", "dst"}
  /\ Buffer.addr = 0 \/ Buffer.len = 0 \/ Buffer.count = 0
  /\ marked' = IF Buffer.addr = 0 /\ req.mode = "plain" /\ ~InPlace
                  THEN marked ELSE marked \cup {Buffer.first}
  /\ pc' = AfterBuffer
  /\ UNCHANGED <<pinning, sg, dst_sg, stale, left, req>>

Slots(b, n) == {b.first + k : k \in 0..(n - 1)}

\* get_user_pages pins every page.
Pin ==
  /\ pc \in {"src", "dst"}
  /\ Buffer.addr # 0 /\ Buffer.len # 0 /\ Buffer.count # 0
  /\ held' = held \cup Slots(Buffer, Buffer.count)
  /\ left' = Buffer.len
  /\ pc'   = IF pc = "src" THEN "src_sg" ELSE "dst_sg"
  /\ UNCHANGED <<array_size, used_pages, readonly_pages, torn, unpinned, leaked, lists,
                 req>>

\* It pins only the first n, which __get_userbuf does not release.  After a
\* failure of the destination get_userbuf calls release_user_pages.
PinFails(n) ==
  /\ pc \in {"src", "dst"}
  /\ Buffer.addr # 0 /\ Buffer.len # 0 /\ n < Buffer.count
  /\ IF pc = "dst" THEN "output" \in Faults ELSE "pin" \in Faults
  /\ n > 0 => "partial" \in Faults
  /\ LET now == held \cup Slots(Buffer, n)
         put == IF pc = "dst" THEN 1..used_pages ELSE {}
     IN  /\ unpinned' = (unpinned \/ ~(put \subseteq now))
         /\ leaked'   = (leaked \/ ~(now \subseteq put))
  /\ torn' = (torn \/ pc = "dst" \/ n > 0)
  /\ used_pages' = IF pc = "dst" THEN 0 ELSE used_pages
  /\ readonly_pages' = IF pc = "dst" THEN 0 ELSE readonly_pages
  /\ End
  /\ UNCHANGED array_size

\* The loop if it used the offset of the first page in all of them.
FillAtOffset ==
  /\ pc \in {"src_sg", "dst_sg"}
  /\ left > 0
  /\ LET b   == Buffer
         n   == Cardinality({k \in DOMAIN sg : k >= b.first})
         len == Smaller(PageSize - PageOffset(b.addr), left)
     IN  /\ sg' = [k \in DOMAIN sg \cup {b.first + n} |->
                     IF k = b.first + n
                       THEN [page |-> (b.addr \div PageSize) + n,
                             offset |-> PageOffset(b.addr), length |-> len]
                       ELSE sg[k]]
         /\ left' = left - len
  /\ UNCHANGED <<pinning, dst_sg, marked, stale, req, pc>>

\* sg_set_page for the first page, from the offset of the buffer in it, and
\* then for one page after the other.
FillEntry ==
  /\ pc \in {"src_sg", "dst_sg"}
  /\ left > 0
  /\ LET b   == Buffer
         n   == Cardinality({k \in DOMAIN sg : k >= b.first})
         off == IF n = 0 THEN PageOffset(b.addr) ELSE 0
         len == Smaller(PageSize - off, left)
     IN  /\ sg' = [k \in DOMAIN sg \cup {b.first + n} |->
                     IF k = b.first + n
                       THEN [page |-> (b.addr \div PageSize) + n,
                             offset |-> off, length |-> len]
                       ELSE sg[k]]
         /\ left' = left - len
  /\ UNCHANGED <<pinning, dst_sg, marked, stale, req, pc>>

FillDone ==
  /\ pc \in {"src_sg", "dst_sg"}
  /\ left = 0
  /\ pc' = AfterBuffer
  /\ UNCHANGED <<pinning, lists, left, req>>

-----------------------------------------------------------------------------
(* The second list of get_userbuf_srtp.                                    *)

\* The bytes entry k stands for start here; the entries before it hold Before(k).
Begins(e) == e.page * PageSize + e.offset
Before(k) == Begins(sg[k]) - req.src

\* sg_copy: entries that cover the first len bytes of the list, in the upper
\* half of the array.
SgCopy(len) ==
  [k \in 1..(2 * AuthPages) |->
     IF k <= AuthPages THEN sg[k]
     ELSE LET j == k - AuthPages
          IN  [sg[j] EXCEPT !.length = Smaller(@, len - Before(j))]]

\* sg_advance that returns the right entry but starts at its beginning.
SgAdvanceWhole(list, consumed) ==
  {[at |-> AuthPages + k, sg |-> list] :
     k \in {j \in 1..AuthPages : consumed - Before(j) \in 0..(list[AuthPages + j].length - 1)}}

\* sg_advance of the second list: the entry byte number consumed is in, which
\* is shortened to start there; none, that is NULL, past the end.
SgAdvance(list, consumed) ==
  {LET n == consumed - Before(k)
       e == AuthPages + k
   IN  [at |-> e, sg |-> [list EXCEPT ![e].offset = @ + n, ![e].length = @ - n]] :
     k \in {j \in 1..AuthPages : consumed - Before(j) \in 0..(list[AuthPages + j].length - 1)}}

\* The pages are counted as used and listed a second time.
CopyList ==
  /\ pc = "copy"
  /\ \E a \in SgAdvance(SgCopy(req.slen), Diff(req)) :
       sg' = a.sg /\ dst_sg' = a.at
  /\ used_pages' = AuthPages
  /\ readonly_pages' = 0
  /\ pc' = "use"
  /\ UNCHANGED <<array_size, held, torn, unpinned, leaked, marked, stale, left, req>>

\* No byte is left for the payload: release_user_pages, -EINVAL.
CopyNoPayload ==
  /\ pc = "copy"
  /\ SgAdvance(SgCopy(req.slen), Diff(req)) = {}
  /\ unpinned' = (unpinned \/ ~(1..AuthPages \subseteq held))
  /\ leaked'   = (leaked \/ ~(held \subseteq 1..AuthPages))
  /\ used_pages' = 0
  /\ readonly_pages' = 0
  /\ End
  /\ UNCHANGED <<array_size, torn>>

\* With auth_src NULL nothing was pinned, and the first entry of ses->sg, now
\* marked as the last, is an earlier request's: sg_copy copies it, up to
\* auth_len bytes, into a list that is otherwise empty.
StaleLen == Smaller(stale.length, req.slen)

CopyStale ==
  /\ pc = "stale"
  /\ Diff(req) < StaleLen
  /\ sg' = [k \in {1, AuthPages + 1} |->
              IF k = 1 THEN stale
              ELSE [stale EXCEPT !.offset = @ + Diff(req), !.length = StaleLen - Diff(req)]]
  /\ dst_sg' = AuthPages + 1
  /\ used_pages' = AuthPages
  /\ readonly_pages' = 0
  /\ torn' = TRUE
  /\ pc' = "use"
  /\ UNCHANGED <<array_size, held, unpinned, leaked, marked, stale, left, req>>

\* It is too short: release_user_pages, of pages that were never pinned.
StaleTooShort ==
  /\ pc = "stale"
  /\ Diff(req) >= StaleLen
  /\ unpinned' = (unpinned \/ ~(1..AuthPages \subseteq held))
  /\ torn' = TRUE
  /\ used_pages' = 0
  /\ readonly_pages' = 0
  /\ End
  /\ UNCHANGED <<array_size, leaked>>

-----------------------------------------------------------------------------
\* release_user_pages if it forgot the pages that were only read.
ReleaseWritable ==
  /\ pc = "use"
  /\ unpinned' = (unpinned \/ ~((readonly_pages + 1)..used_pages \subseteq held))
  /\ leaked'   = (leaked \/ ~(held \subseteq (readonly_pages + 1)..used_pages))
  /\ readonly_pages' = 0
  /\ used_pages' = 0
  /\ End
  /\ UNCHANGED <<array_size, torn>>

\* release_user_pages, after the operation: every slot in use is put, and the
\* pages that were read only are counted off first.
Release ==
  /\ pc = "use"
  /\ unpinned' = (unpinned \/ ~(1..used_pages \subseteq held))
  /\ leaked'   = (leaked \/ ~(held \subseteq 1..used_pages))
  /\ readonly_pages' = IF used_pages < readonly_pages
                         THEN readonly_pages - used_pages ELSE 0
  /\ used_pages' = 0
  /\ End
  /\ UNCHANGED <<array_size, torn>>

Next ==
  \/ \E r \in Request : Start(r) \/ StartTls(r) \/ StartSrtp(r)
  \/ Adjust \/ AdjustFails
  \/ SkipBuffer \/ Pin \/ FillEntry \/ FillDone
  \/ \E n \in 0..MaxPages : PinFails(n)
  \/ CopyList \/ CopyNoPayload \/ CopyStale \/ StaleTooShort
  \/ Release

Spec == Init /\ [][Next]_vars
-----------------------------------------------------------------------------
(* Properties.                                                             *)

\* What sg_set_page is given: bytes of one page.
Entry == {e \in [page : Nat, offset : 0..(PageSize - 1), length : 1..PageSize] :
            e.offset + e.length <= PageSize}

\* Type correctness; the arrays never shrink below DEFAULT_PREALLOC_PAGES.
TypeOK ==
  /\ array_size \in Nat /\ array_size >= Prealloc
  /\ used_pages \in Nat
  /\ readonly_pages \in 0..used_pages
  /\ held \subseteq Nat
  /\ DOMAIN sg \subseteq Nat /\ \A k \in DOMAIN sg : sg[k] \in Entry
  /\ left \in Nat
  /\ dst_sg \in {0} \cup DOMAIN sg
  /\ marked \subseteq Nat
  /\ stale \in Entry \cup {NoEntry}
  /\ req \in [mode : {"plain", "tls", "srtp"}, src : Nat, slen : Nat, dst : Nat,
              dlen : Nat]
  /\ pc \in {"idle", "adjust", "src", "src_sg", "dst", "dst_sg", "copy", "stale", "use"}
  /\ torn \in BOOLEAN /\ unpinned \in BOOLEAN /\ leaked \in BOOLEAN

\* A destination apart from its source, there, and empty though the source is
\* not.  Only CIOCAUTHCRYPT has one, when len + tag_len of an encryption wraps
\* to 0 (cryptodev_get_dst_len).
EmptyOutput ==
  req.mode = "plain" /\ ~InPlace /\ req.dst # 0 /\ req.dlen = 0 /\ req.slen # 0

\* get_user_pages, sg_set_page and sg_mark_end never write past the end of
\* ses->pages or ses->sg, also when a request needs more than the arrays had
\* and after a request whose krealloc failed.  Excepted is the sg_mark_end for
\* an empty destination after a source that fills the array: it marks the entry
\* after the last.
SlotsInBounds ==
  /\ held \cup DOMAIN sg \subseteq 1..array_size
  /\ EmptyOutput \/ marked \subseteq 1..array_size

\* The loop of __get_userbuf uses no more entries than PAGECOUNT said: every
\* scatterlist entry stands for a page that was pinned for this buffer, and
\* the source's entries never run into the destination's.  An SRTP request with
\* auth_src NULL is excepted: it uses an entry of an earlier request.
EntriesArePinned ==
  /\ ~NullAuth =>
       {IF dst_sg # 0 /\ k > AuthPages THEN k - AuthPages ELSE k : k \in DOMAIN sg}
         \subseteq held
  /\ pc = "src_sg" => DOMAIN sg \subseteq 1..Buffer.count

\* The entries in slots S describe bytes addr .. addr + len - 1, in order.
Covers(S, addr, len) ==
  /\ UNION {Begins(sg[k])..(Begins(sg[k]) + sg[k].length - 1) : k \in S}
       = IF len = 0 THEN {} ELSE addr..(addr + len - 1)
  /\ \A k \in S : k + 1 \in S => Begins(sg[k + 1]) = Begins(sg[k]) + sg[k].length

\* What the operation works on is exactly the user's buffers, wherever they
\* start in a page and however many pages they touch.
ScatterCoversBuffers ==
  pc = "use" /\ req.mode # "srtp" =>
    /\ DOMAIN sg = 1..used_pages
    /\ IF InPlace
         THEN Covers(1..used_pages, req.src, Larger(req.slen, req.dlen))
         ELSE /\ Covers(1..readonly_pages, req.src, req.slen)
              /\ Covers((readonly_pages + 1)..used_pages, req.dst, req.dlen)

\* SRTP authenticates the whole buffer through the first list and encrypts
\* what follows the header through the second, from the payload's own address
\* to the end of the buffer, also when the header ends in a later page than it
\* starts in.  This is for a buffer that is not NULL and a payload that lies in
\* it or at most MaxDiff bytes after its start.  Others are excepted: the comment
\* of get_userbuf_srtp says that they are refused, but the difference is truncated
\* to an int first, and a payload far away may pass.  How many of these bytes the
\* cipher is asked for, caop->len, is a matter of module AuthEnc.
PayloadFollowsHeader ==
  pc = "use" /\ req.mode = "srtp" /\ ~NullAuth =>
    /\ Covers(1..used_pages, req.src, req.slen)
    /\ req.dst \in req.src..(req.src + MaxDiff) =>
         Covers(dst_sg..(2 * used_pages), req.dst, req.src + req.slen - req.dst)

\* Every page that is pinned is put once, and no other page is, also when a
\* request fails, as long as get_user_pages pins all the pages of a source or
\* none and never fails for a destination, and no SRTP request has auth_src
\* NULL: get_userbuf_srtp counts pages for it and pins none.
PinsBalanced == ~torn => ~unpinned /\ ~leaked

\* The same for every failure of get_user_pages.  The code does not guarantee
\* it: see the README.
PinsAlwaysBalanced == ~unpinned /\ ~leaked
=============================================================================
