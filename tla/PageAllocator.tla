--------------------------- MODULE PageAllocator ---------------------------
(***************************************************************************)
(* What the page pool promises the buffers (msgpack_rmem_alloc and         *)
(* msgpack_rmem_free of ext/msgpack/rmem.h): a page is given to one holder *)
(* at a time, a region is fetched from malloc when a page of it is needed  *)
(* and is not given back before its last page.  How the pages are kept in  *)
(* chunks is Rmem's business.                                              *)
(***************************************************************************)
EXTENDS Integers

CONSTANT Page           \* the pages, pairs of a region and a position in it

VARIABLES
    live,               \* how many holders each page has
    heap                \* the regions the pool has from malloc

Init == /\ live = [p \in Page |-> 0]
        /\ \E p \in Page : heap = {p[1]}

\* msgpack_rmem_alloc: some page that nobody holds.
Alloc(p) == /\ live[p] = 0
            /\ live' = [live EXCEPT ![p] = 1]
            /\ heap' = heap \cup {p[1]}

Idle(r) == \A p \in Page : p[1] = r => live'[p] = 0

\* msgpack_rmem_free: a holder gives its page back; an idle region may go.
Free(p) == /\ live[p] = 1
           /\ live' = [live EXCEPT ![p] = 0]
           /\ \/ heap' = heap
              \/ heap' = heap \ {p[1]} /\ Idle(p[1])

Next == \E p \in Page : Alloc(p) \/ Free(p)

Spec == Init /\ [][Next]_<<live, heap>>
=============================================================================
