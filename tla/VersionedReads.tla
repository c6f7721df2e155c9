--------------------------- MODULE VersionedReads ---------------------------
(***************************************************************************)
(* What a caller may rely on when it reads a document that is published    *)
(* elsewhere in successive versions: a read may fail, but when it succeeds *)
(* its answer is no older than any version that had already been returned  *)
(* to anyone when the read began, and no newer than what is published.     *)
(* Neither cache nor coalescing is visible here, except that the outcomes  *)
(* of several reads may be settled together.                               *)
(***************************************************************************)
EXTENDS Integers

CONSTANTS Caller,   \* concurrent tool invocations
          Query     \* the documents that can be asked for

VARIABLES published,   \* the version of each document now in force upstream
          returned,    \* the newest version of each document ever returned
          reads        \* the read each caller has under way, if any

readVars == <<published, returned, reads>>

NoRead == [phase |-> "none"]

Reading(q, floor) == [phase |-> "reading", query |-> q, floor |-> floor]

Got(q, v) == [phase |-> "got", query |-> q, version |-> v]

Failed == [phase |-> "failed"]

ReadInit == /\ published = [q \in Query |-> 1]
            /\ returned = [q \in Query |-> 0]
            /\ reads = [c \in Caller |-> NoRead]

Publish(q) == /\ published' = [published EXCEPT ![q] = @ + 1]
              /\ UNCHANGED <<returned, reads>>

\* A read begins: its answer must not be older than the floor.
Begin(c, q) == /\ reads[c] = NoRead
               /\ reads' = [reads EXCEPT ![c] = Reading(q, returned[q])]
               /\ UNCHANGED <<published, returned>>

\* c's read has succeeded with some admissible version, or failed.
Settled(c) ==
    /\ reads[c].phase = "reading"
    /\ \/ reads'[c] = Failed
       \/ \E v \in reads[c].floor..published[reads[c].query] :
             reads'[c] = Got(reads[c].query, v)

Settle == /\ reads' = [c \in Caller |-> reads'[c]]
          /\ \A c \in Caller : Settled(c) \/ reads'[c] = reads[c]
          /\ UNCHANGED <<published, returned>>

Newer(a, b) == IF a >= b THEN a ELSE b

\* The reader is given the answer ...
Return(c) ==
    /\ reads[c].phase = "got"
    /\ returned' = [returned EXCEPT ![reads[c].query] =
                                       Newer(@, reads[c].version)]
    /\ reads' = [reads EXCEPT ![c] = NoRead]
    /\ UNCHANGED published

\* ... or the error.
ReturnFailure(c) == /\ reads[c] = Failed
                    /\ reads' = [reads EXCEPT ![c] = NoRead]
                    /\ UNCHANGED <<published, returned>>

ReadNext == \/ \E q \in Query : Publish(q)
            \/ Settle
            \/ \E c \in Caller : \/ \E q \in Query : Begin(c, q)
                                 \/ Return(c)
                                 \/ ReturnFailure(c)

ReadSpec == ReadInit /\ [][ReadNext]_readVars

=============================================================================
