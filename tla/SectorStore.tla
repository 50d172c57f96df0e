---------------------------- MODULE SectorStore -----------------------------
(***************************************************************************)
(* What SynchDisk promises its callers: a disk whose sectors are read and  *)
(* written one request at a time, each caller returning only after its own *)
(* transfer is over, and whose contents outlive the machine.               *)
(***************************************************************************)
CONSTANTS Threads, NoThread, NoCall

VARIABLES
  disk,    \* the contents of every sector
  asked,   \* the request a thread is in: [op, sector, data], or NoCall
  busy,    \* the thread whose transfer is going on
  served,  \* the threads whose transfer is over
  buffer   \* what it has read

storeVars == <<disk, asked, busy, served, buffer>>

Init ==
  /\ asked = [t \in Threads |-> NoCall]
  /\ buffer = asked
  /\ busy = NoThread
  /\ served = {}

Ask(t) ==
  /\ asked[t] = NoCall
  /\ asked'[t] # NoCall
  /\ asked' = [asked EXCEPT ![t] = asked'[t]]
  /\ UNCHANGED <<disk, busy, served, buffer>>

Start(t) ==
  /\ busy = NoThread
  /\ asked[t] # NoCall /\ t \notin served
  /\ busy' = t
  /\ LET sector == asked[t].sector IN
     IF asked[t].op = "write"
       THEN disk' = [disk EXCEPT ![sector] = asked[t].data] /\ UNCHANGED buffer
       ELSE buffer' = [buffer EXCEPT ![t] = disk[sector]] /\ UNCHANGED disk
  /\ UNCHANGED <<asked, served>>

Done ==
  /\ busy # NoThread
  /\ busy' = NoThread
  /\ served' = served \cup {busy}
  /\ UNCHANGED <<disk, asked, buffer>>

\* The caller gets what its own transfer put in the buffer.
Answer(t) ==
  /\ t \in served
  /\ served' = served \ {t}
  /\ asked' = [asked EXCEPT ![t] = NoCall]
  /\ buffer' = [buffer EXCEPT ![t] = NoCall]
  /\ UNCHANGED <<disk, busy>>

\* The machine dies: the calls are forgotten, the sectors stay as they are.
Crash ==
  /\ asked' = [t \in Threads |-> NoCall]
  /\ buffer' = [t \in Threads |-> NoCall]
  /\ busy' = NoThread
  /\ served' = {}
  /\ UNCHANGED disk

Next == Done \/ Crash \/ \E t \in Threads : Ask(t) \/ Start(t) \/ Answer(t)

Spec == Init /\ [][Next]_storeVars
=============================================================================
