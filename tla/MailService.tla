----------------------------- MODULE MailService ----------------------------
(***************************************************************************)
(* What the post office promises to the threads that use it (network.h:    *)
(* packets can be lost, are never corrupted; post.h: mail boxes): each box *)
(* is a queue, and a mail either never gets into it or comes out once; the *)
(* mails are numbered as they are sent, so the oldest has the least number.*)
(***************************************************************************)
EXTENDS Naturals

CONSTANTS Boxes, MaxMail

VARIABLES sent,     \* how many mails have been sent, which also numbers them
          transit,  \* for each box, the mails sent to it that are still to come out
          taken     \* for each box, the mail last taken out of it

serviceVars == <<sent, transit, taken>>

Init ==
  /\ sent = 0
  /\ transit = [b \in Boxes |-> {}]
  /\ taken = [b \in Boxes |-> 0]

Lose == sent' = sent + 1 /\ UNCHANGED <<transit, taken>>

Post(b) ==
  /\ sent' = sent + 1
  /\ transit' = [transit EXCEPT ![b] = @ \cup {sent + 1}]
  /\ UNCHANGED taken

\* The oldest mail comes out first.
Take(b) ==
  \E mail \in transit[b] :
    /\ \A other \in transit[b] : mail <= other
    /\ taken' = [taken EXCEPT ![b] = mail]
    /\ transit' = [transit EXCEPT ![b] = @ \ {mail}]
    /\ UNCHANGED sent

Next ==
  \/ sent < MaxMail /\ (Lose \/ \E b \in Boxes : Post(b))
  \/ \E b \in Boxes : Take(b)

Spec == Init /\ [][Next]_serviceVars
=============================================================================
