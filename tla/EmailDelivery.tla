---------------------------- MODULE EmailDelivery ----------------------------
(***************************************************************************)
(* What the email outbox promises to the code that enqueues a message: a   *)
(* message is queued once, the provider accepts it at most once, and its   *)
(* fate is settled once, as "delivered" only if the provider accepted it.  *)
(* Giving up and acceptance are independent: the provider may accept a     *)
(* message the worker gave up on, because its answer never came back.      *)
(***************************************************************************)
CONSTANT Messages

VARIABLES fate,    \* fate[m]: what the sender's database says of message m
          mailed   \* mailed[m]: how many different mails the provider made of m

vars == <<fate, mailed>>

Init == /\ fate = [m \in Messages |-> "absent"]
        /\ mailed = [m \in Messages |-> 0]

Queue(m) == /\ fate[m] = "absent"
            /\ fate' = [fate EXCEPT ![m] = "queued"]
            /\ UNCHANGED mailed

Mail(m) == /\ fate[m] # "absent"
           /\ mailed[m] = 0
           /\ mailed' = [mailed EXCEPT ![m] = 1]
           /\ UNCHANGED fate

Deliver(m) == /\ fate[m] = "queued"
              /\ mailed[m] = 1
              /\ fate' = [fate EXCEPT ![m] = "delivered"]
              /\ UNCHANGED mailed

GiveUp(m) == /\ fate[m] = "queued"
             /\ fate' = [fate EXCEPT ![m] = "dead_letter"]
             /\ UNCHANGED mailed

Next == \E m \in Messages : Queue(m) \/ Mail(m) \/ Deliver(m) \/ GiveUp(m)

Spec == Init /\ [][Next]_vars
=============================================================================
