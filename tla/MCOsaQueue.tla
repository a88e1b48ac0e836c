---------------------------- MODULE MCOsaQueue -----------------------------
(***************************************************************************)
(* OsaQueue for TLC, with the threads in the fixed roles they have in the  *)
(* program (app_writer.c: the capture threads fill, the record thread      *)
(* drains), so that it can be checked that values keep flowing.            *)
(***************************************************************************)
EXTENDS OsaQueue

CONSTANTS Producers, Consumers

Produce(t) == Put(t) \/ PutResume(t)
Consume(t) == Get(t) \/ GetResume(t)

RoleNext == \/ \E t \in Producers : Produce(t)
            \/ \E t \in Consumers : Consume(t) \/ Peek(t)
            \/ \E t \in Threads : SpuriousWakeup(t)

\* Each thread is a loop around its blocking call and is scheduled by the
\* kernel: a thread that can run does.  Spurious wakeups are not promised.
RoleSpec == /\ Init /\ [][RoleNext]_vars
            /\ \A t \in Producers : WF_vars(Produce(t))
            /\ \A t \in Consumers : WF_vars(Consume(t))

\* Values keep flowing: with a producer and a consumer in their loops the queue
\* never comes to rest with everybody asleep.
ValuesKeepFlowing == []<><<\E t \in Consumers : Fetch(t)>>_vars
=============================================================================
