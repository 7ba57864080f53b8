------------------------------- MODULE MruSet -------------------------------
(***************************************************************************)
(* mruset (mruset.h): a set that keeps the most recent N elements.  The    *)
(* set and the queue always have the same elements, so the queue stands    *)
(* for both; nMaxSize 0 is no limit.                                       *)
(***************************************************************************)
EXTENDS Naturals, Sequences, SequencesExt

MruCount(queue, x) == x \in ToSet(queue)

MruInsert(queue, nMaxSize, x) ==
  IF MruCount(queue, x) THEN queue
  ELSE IF nMaxSize > 0 /\ Len(queue) = nMaxSize THEN Append(Tail(queue), x)
  ELSE Append(queue, x)
=============================================================================
