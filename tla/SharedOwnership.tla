-------------------------- MODULE SharedOwnership --------------------------
(***************************************************************************)
(* What a reference-counted handle promises (spec.md section 9: "explicit  *)
(* shared ownership (reference-counted handle) confined to one process"):  *)
(* a buffer is alive exactly while some thread owns it, it dies in the     *)
(* same step its last owner lets go, and a dead buffer is never owned      *)
(* again.  Threads share a buffer by taking it from a current owner.       *)
(***************************************************************************)
CONSTANTS Threads, Holders, NoHolder

VARIABLES
    owner,   \* owner[t]: the buffer thread t owns, or NoHolder
    live,    \* buffers created and not yet dead
    freed    \* buffers that have died

vars == <<owner, live, freed>>

Init ==
    /\ owner = [t \in Threads |-> NoHolder]
    /\ live = {}
    /\ freed = {}

\* Thread t lets go of h; h dies if t was its last owner.
LetGo(t, h) ==
    IF \A s \in Threads \ {t} : owner[s] # h
    THEN /\ live' = live \ {h}
         /\ freed' = freed \cup {h}
    ELSE UNCHANGED <<live, freed>>

\* Thread t takes a share of the buffer thread u owns.
Share(t, u) ==
    /\ owner[t] = NoHolder
    /\ owner[u] # NoHolder
    /\ owner' = [owner EXCEPT ![t] = owner[u]]
    /\ UNCHANGED <<live, freed>>

\* Thread t drops its share.
Drop(t) ==
    /\ owner[t] # NoHolder
    /\ owner' = [owner EXCEPT ![t] = NoHolder]
    /\ LetGo(t, owner[t])

\* Thread t replaces what it owns by a new buffer.
Create(t) ==
    \E h \in Holders \ (live \cup freed) :
        /\ owner' = [owner EXCEPT ![t] = h]
        /\ IF owner[t] = NoHolder
           THEN /\ live' = live \cup {h}
                /\ UNCHANGED freed
           ELSE IF \A s \in Threads \ {t} : owner[s] # owner[t]
           THEN /\ live' = (live \ {owner[t]}) \cup {h}
                /\ freed' = freed \cup {owner[t]}
           ELSE /\ live' = live \cup {h}
                /\ UNCHANGED freed

Next ==
    \E t \in Threads :
        \/ \E u \in Threads : Share(t, u)
        \/ Drop(t)
        \/ Create(t)

Spec == Init /\ [][Next]_vars

\* A buffer is owned only while it is alive.
OwnedIsLive == \A t \in Threads : owner[t] # NoHolder => owner[t] \in live

=============================================================================
