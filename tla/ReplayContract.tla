--------------------------- MODULE ReplayContract ---------------------------
(***************************************************************************)
(* What the replay of queued operations promises, with no request, batch,  *)
(* attempt, time-out or crash in sight.  An operation lands once, when it  *)
(* can, and after everything its till queued before it that was not        *)
(* refused; a till lets go of the operations at the head of its queue that *)
(* have landed, and of at most one refused, which it shows: all but an old *)
(* till, which does not tell some refusals from done.                      *)
(* Replay is shown to implement this contract.                             *)
(***************************************************************************)
EXTENDS Integers, Sequences, SequencesExt

CONSTANTS Tills, Ops, Queue, Needs, Bars,
          Old, Unlisted  \* the tills that take some operations' refusals for done

VARIABLES landed,    \* how often each operation has landed
          queued,    \* what each till still has to send
          refused    \* what each till shows as refused

vars == <<landed, queued, refused>>

Init ==
  /\ landed = [o \in Ops |-> 0]
  /\ queued = Queue
  /\ refused = [d \in Tills |-> {}]

HasLanded(o) == landed[o] > 0

\* Till d takes a refusal of o for done.
Unread(d, o) == d \in Old /\ o \in Unlisted

\* Till d has let go of o, which it cannot tell to have landed.
Unseen(d, o) == Unread(d, o) /\ o \notin ToSet(queued[d])

\* It is o's turn at till d: what d queued before it has landed or was refused.
InTurn(d, o) ==
  \E i \in DOMAIN Queue[d] :
    /\ Queue[d][i] = o
    /\ \A j \in 1 .. i - 1 :
         HasLanded(Queue[d][j]) \/ Queue[d][j] \in refused[d] \/ Unseen(d, Queue[d][j])

\* Any till that holds the operation may be the one it comes from.
Land(o) ==
  /\ ~HasLanded(o)
  /\ \A p \in Needs[o] : HasLanded(p)
  /\ \A p \in Bars[o] : ~HasLanded(p)
  /\ \E d \in Tills : InTurn(d, o)
  /\ landed' = [landed EXCEPT ![o] = 1]
  /\ UNCHANGED <<queued, refused>>

\* The first n operations are known to have landed; the next one may be given
\* up on, and is shown unless the till takes it for landed.
LetGo(d) ==
  \E n \in 0 .. Len(queued[d]) :
    /\ \A i \in 1 .. n : HasLanded(queued[d][i])
    /\ \/ /\ queued' = [queued EXCEPT ![d] = SubSeq(@, n + 1, Len(@))]
          /\ UNCHANGED refused
       \/ /\ n < Len(queued[d])
          /\ queued' = [queued EXCEPT ![d] = SubSeq(@, n + 2, Len(@))]
          /\ refused' = [refused EXCEPT ![d] = @ \cup {queued[d][n + 1]}]
       \/ /\ n < Len(queued[d]) /\ Unread(d, queued[d][n + 1])
          /\ queued' = [queued EXCEPT ![d] = SubSeq(@, n + 2, Len(@))]
          /\ UNCHANGED refused
    /\ UNCHANGED landed

Next == \/ \E o \in Ops : Land(o)
        \/ \E d \in Tills : LetGo(d)

Spec == Init /\ [][Next]_vars
=============================================================================
