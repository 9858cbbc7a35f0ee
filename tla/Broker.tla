-------------------------------- MODULE Broker --------------------------------
(***************************************************************************)
(* A publisher and a consumer of shared/rabbit_messenger.py and the queue  *)
(* between them, for some runs of the modules they belong to.  The         *)
(* publisher is called by a thread of its own (RabbitThread, of            *)
(* reid/output_threads.py and its likes); the consumer is a thread owned   *)
(* by a MessageOrganizer.                                                  *)
(*                                                                         *)
(* Either the publisher declares the queue, and purges it when it is       *)
(* closed, or only the consumer does, for a queue with a name of its own.  *)
(* Messages of a run are alike, and any number of them may be sent: the    *)
(* broker and the consumer's client are taken to hold no more than a few.  *)
(* Connections break, the broker goes down and comes back, or does not;    *)
(* it forgets the messages (they are not persistent) and keeps the queues. *)
(***************************************************************************)
EXTENDS Naturals, Sequences

CONSTANTS Tries,            \* RABBIT_MAX_TRIES
          Capacity, MaxRuns \* bounds: messages held at one place, runs

VARIABLES own,      \* whether the publisher declares the queue (create_queue)
          clears,   \* whether the consumer's module clears queues when it stops
          up,       \* whether the broker runs
          bound,    \* whether the queue is declared and bound
          stored,   \* messages in the queue, by their run
          open,     \* those with an open connection
          pub, told, tries, \* publisher thread, whether it was told to stop, attempts
          con, process,     \* consumer thread and its flag
          buffer,   \* messages the consumer's client was given (auto_ack)
          owner,    \* the organizer
          run,      \* number of the run
          stale,    \* whether the consumer took a message of an earlier run
          cleared,  \* whether the queue was cleared after the publisher's end
          orderly,  \* whether the last run ended in an orderly way
          late      \* threads whose run() overwrote a stop() that came first

brokerVars == <<own, clears, up, bound, stored, open, pub, told, tries, con, process, buffer,
                owner, run, stale, cleared, orderly, late>>
publisherVars == <<pub, told, tries>>
consumerVars == <<con, process, buffer, stale>>
runVars == <<own, clears, run, orderly>>

Init ==
    /\ own \in BOOLEAN /\ clears \in BOOLEAN /\ (own \/ clears)
    /\ up = TRUE /\ bound = FALSE /\ stored = <<>> /\ open = {}
    /\ pub = "closed" /\ told = FALSE /\ tries = 0
    /\ con = "ended" /\ process = FALSE /\ buffer = <<>> /\ owner = "over"
    /\ run = 0 /\ stale = FALSE /\ cleared = TRUE /\ orderly = TRUE /\ late = {}

-----------------------------------------------------------------------------
PublisherOver == pub \in {"closed", "died"}
Put(queue, message) == IF Len(queue) < Capacity THEN Append(queue, message) ELSE queue

\* get_connection, of a client that declares the queue or not.
Connected(who, declares) ==
    /\ up
    /\ open' = open \cup {who}
    /\ bound' = (bound \/ declares)

\* The modules of a new run are made when both threads of the last one have ended: the
\* publisher connects at once, or the module dies.
NewRun ==
    /\ PublisherOver /\ owner = "over" /\ run < MaxRuns
    /\ run' = run + 1
    /\ orderly' = ((own /\ pub = "closed") \/ cleared)
    /\ \/ Connected("publisher", own) /\ pub' = "starting"
       \/ ~up /\ pub' = "died" /\ UNCHANGED <<open, bound>>
    /\ told' = FALSE /\ tries' = 0
    /\ owner' = "running" /\ con' = "starting"
    /\ process' = FALSE /\ stale' = FALSE /\ cleared' = FALSE
    /\ UNCHANGED <<own, clears, up, stored, buffer, late>>

-----------------------------------------------------------------------------
\* RabbitThread.run begins; stop() of it; an item of its queue.
RunPublisher ==
    /\ pub = "starting" /\ pub' = "loop"
    /\ told' = FALSE
    /\ late' = IF told THEN late \cup {"publisher"} ELSE late
    /\ UNCHANGED <<up, bound, stored, open, tries, consumerVars, owner, cleared, runVars>>

StopPublisher ==
    /\ ~PublisherOver /\ ~told /\ told' = TRUE
    /\ UNCHANGED <<up, bound, stored, open, pub, tries, consumerVars, owner, cleared, runVars, late>>

TakeItem ==
    /\ pub = "loop" /\ ~told
    /\ pub' = "send" /\ tries' = 0
    /\ UNCHANGED <<up, bound, stored, open, told, consumerVars, owner, cleared, runVars, late>>

\* Publisher.publish: the exchange drops what no queue is bound for.
Deliver == stored' = IF bound THEN Put(stored, run) ELSE stored

Send ==
    /\ pub = "send" /\ "publisher" \in open
    /\ Deliver
    /\ pub' = "loop"
    /\ UNCHANGED <<up, bound, open, told, tries, consumerVars, owner, cleared, runVars, late>>

\* The attempt raises; the message may have been delivered when the connection broke.
\* The connection is made anew before the next attempt, or the thread dies of the last.
SendFails ==
    /\ pub = "send"
    /\ IF "publisher" \in open THEN Deliver ELSE UNCHANGED stored
    /\ \/ Connected("publisher", own)
       \/ ~up /\ open' = open \ {"publisher"} /\ UNCHANGED bound
    /\ tries' = tries + 1
    /\ pub' = IF tries' = Tries THEN "died" ELSE "send"
    /\ UNCHANGED <<up, told, consumerVars, owner, cleared, runVars, late>>

\* (slip: the connection is closed first, and the purge, which fails, is logged)
CloseFirst ==
    /\ pub = "loop" /\ told
    /\ pub' = IF "publisher" \in open THEN "closed" ELSE "died"
    /\ open' = open \ {"publisher"}
    /\ UNCHANGED <<up, bound, stored, told, tries, consumerVars, owner, cleared, runVars, late>>

\* Publisher.close at the end of the thread purges the queue it declared.  Without a
\* connection it does not, or raises.
Close ==
    /\ pub = "loop" /\ told
    /\ IF "publisher" \in open
       THEN pub' = "closed" /\ stored' = IF own THEN <<>> ELSE stored
       ELSE pub' = "died" /\ UNCHANGED stored
    /\ open' = open \ {"publisher"}
    /\ UNCHANGED <<up, bound, told, tries, consumerVars, owner, cleared, runVars, late>>

-----------------------------------------------------------------------------
\* Consumer.run begins.
RunConsumer ==
    /\ con = "starting" /\ con' = "loop"
    /\ process' = TRUE
    /\ late' = IF owner = "running" THEN late ELSE late \cup {"consumer"}
    /\ UNCHANGED <<up, bound, stored, open, publisherVars, buffer, stale, owner, cleared, runVars>>

\* The head of its loop; at the end, disconnect.
Loop ==
    /\ con = "loop"
    /\ \/ process /\ con' = "consume" /\ UNCHANGED <<open, buffer>>
       \/ ~process /\ con' = "ended" /\ open' = open \ {"consumer"} /\ buffer' = <<>>
    /\ UNCHANGED <<up, bound, stored, publisherVars, process, stale, owner, cleared, runVars, late>>

\* reconnect: again and again, as long as the consumer is not told to stop.
Reconnect ==
    /\ con = "consume" /\ "consumer" \notin open
    /\ \/ process /\ Connected("consumer", TRUE)
       \/ ~process /\ UNCHANGED <<open, bound>>
    /\ con' = "loop"
    /\ UNCHANGED <<up, stored, publisherVars, process, buffer, stale, owner, cleared, runVars, late>>

\* The loop over channel.consume, which looks at the flag only after a second of silence.
Take ==
    /\ con = "consume" /\ buffer # <<>>
    /\ buffer' = Tail(buffer)
    /\ stale' = (stale \/ Head(buffer) # run)
    /\ UNCHANGED <<up, bound, stored, open, publisherVars, con, process, owner, cleared, runVars, late>>

Silence ==
    /\ con = "consume" /\ "consumer" \in open /\ buffer = <<>> /\ stored = <<>>
    /\ con' = "loop"
    /\ UNCHANGED <<up, bound, stored, open, publisherVars, process, buffer, stale, owner, cleared,
                   runVars, late>>

\* The broker hands a message to the client; what that holds goes with the connection.
Push ==
    /\ con = "consume" /\ "consumer" \in open /\ stored # <<>> /\ Len(buffer) < Capacity
    /\ stored' = Tail(stored) /\ buffer' = Append(buffer, Head(stored))
    /\ UNCHANGED <<up, bound, open, publisherVars, con, process, stale, owner, cleared, runVars, late>>

\* MessageOrganizer.run after its loop: stop, join, and clear_queue, on a connection of
\* its own, which gives up when the broker is down.
StopConsumer ==
    /\ owner = "running" /\ owner' = "joining"
    /\ process' = FALSE
    /\ UNCHANGED <<up, bound, stored, open, publisherVars, con, buffer, stale, cleared, runVars, late>>

Joined ==
    /\ owner = "joining" /\ con = "ended"
    /\ owner' = IF clears THEN "clear" ELSE "over"
    /\ UNCHANGED <<up, bound, stored, open, publisherVars, consumerVars, cleared, runVars, late>>

ClearQueue ==
    /\ owner = "clear" /\ owner' = "over"
    /\ \/ up /\ stored' = <<>> /\ bound' = TRUE /\ cleared' = PublisherOver
       \/ ~up /\ UNCHANGED <<stored, bound, cleared>>
    /\ UNCHANGED <<up, open, publisherVars, consumerVars, runVars, late>>

-----------------------------------------------------------------------------
\* A connection is lost; the broker goes down; it is started again.
Drop ==
    /\ \E who \in open :
           /\ open' = open \ {who}
           /\ buffer' = IF who = "consumer" THEN <<>> ELSE buffer
    /\ UNCHANGED <<up, bound, stored, publisherVars, con, process, stale, owner, cleared, runVars, late>>
Down ==
    /\ up /\ up' = FALSE
    /\ stored' = <<>> /\ buffer' = <<>> /\ open' = {}
    /\ UNCHANGED <<bound, publisherVars, con, process, stale, owner, cleared, runVars, late>>
Up ==
    /\ ~up /\ up' = TRUE
    /\ UNCHANGED <<bound, stored, open, publisherVars, consumerVars, owner, cleared, runVars, late>>

Publisher == RunPublisher \/ Send \/ SendFails \/ Close
Consumer == RunConsumer \/ Loop \/ Reconnect \/ Take \/ Silence \/ Push
Owner == Joined \/ ClearQueue
Next ==
    \/ NewRun \/ Publisher \/ StopPublisher \/ TakeItem \/ Consumer \/ StopConsumer \/ Owner
    \/ Drop \/ Down \/ Up
Spec ==
    /\ Init /\ [][Next]_brokerVars
    /\ WF_brokerVars(Publisher) /\ WF_brokerVars(Consumer) /\ WF_brokerVars(Owner)

-----------------------------------------------------------------------------
\* A consumer is given frames of an earlier run only when that run did not end in an
\* orderly way: by its publisher's close, on a connection and for a queue of its own, or
\* with the queue cleared after the publisher's end.
NothingStale == [][stale' => ~orderly']_brokerVars

\* Who is told to stop ends, although the broker may have gone for good; but for a
\* consumer whose queue is never silent, and for threads that were told too early.
StopEnds ==
    /\ told ~> (PublisherOver \/ "publisher" \in late)
    /\ (owner = "joining" ~> (owner = "over" \/ "consumer" \in late)) \/ []<>(pub = "send")
=============================================================================
