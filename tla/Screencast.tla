------------------------------ MODULE Screencast ------------------------------
(***************************************************************************)
(* A continuous recording of a tab: evidence/screencast.py, started and    *)
(* stopped by evidence/recording.py.  The reader thread of the connection  *)
(* hands each frame over; one thread acknowledges them to Chrome, another  *)
(* writes them to disk, and the caller starts and stops it all.            *)
(***************************************************************************)
EXTENDS Naturals, Sequences

CONSTANTS
  MaxQueue,  \* of the frames to be written (256 in the code)
  Window,    \* frames that Chrome sends without an acknowledgement
  MaxFrames  \* frames there are (a bound)

VARIABLES
  stage,     \* of the caller
  listening, \* _on_event is among the subscribers
  casting,   \* Chrome sends frames
  sent,      \* how many it has sent
  handing,   \* the frame for which the reader thread has copied the subscribers
  acks,      \* _acks
  asked,     \* frames whose acknowledgement has been requested
  acker,     \* the thread of _ack_frames()
  frameQueue,\* _queue
  writer,    \* the thread of _write_frames()
  frames,    \* its counter
  rows       \* of frames.jsonl

castVars == <<stage, listening, casting, sent, handing, acks, asked, acker, frameQueue, writer, frames, rows>>
callerVars == <<stage, listening>>
chromeVars == <<casting, sent>>
ackVars == <<acks, asked, acker>>
writerVars == <<frameQueue, writer, frames, rows>>

Nothing == 0
Stop == MaxFrames + 1   \* the None that ends a thread

TypeOK ==
  /\ stage \in {"new", "starting", "running", "stopping", "failing", "unsubscribed", "joining", "over"}
  /\ listening \in BOOLEAN /\ casting \in BOOLEAN
  /\ sent \in 0..MaxFrames /\ handing \in 0..MaxFrames
  /\ asked \subseteq 1..MaxFrames /\ acker \in {"new", "get", "request", "ended"}
  /\ Len(frameQueue) <= MaxQueue /\ writer \in {"new", "get", "write", "row", "ended", "died"}
  /\ frames \in 0..MaxFrames /\ Len(rows) <= frames

Init ==
  /\ stage = "new" /\ listening = FALSE /\ casting = FALSE /\ sent = 0 /\ handing = Nothing
  /\ acks = <<>> /\ asked = {} /\ acker = "new"
  /\ frameQueue = <<>> /\ writer = "new" /\ frames = 0 /\ rows = <<>>

-----------------------------------------------------------------------------
(* The caller.                                                             *)

\* __init__: everything is in place when Page.startScreencast is sent.
Start ==
  /\ stage = "new" /\ stage' = "starting"
  /\ listening' = TRUE /\ acker' = "get" /\ writer' = "get"
  /\ UNCHANGED <<chromeVars, handing, acks, asked, frameQueue, frames, rows>>

\* The answer, which the reader thread delivers, or an error: Chrome may be sending all the same.
Started ==
  /\ stage = "starting"
  /\ \/ casting /\ handing = Nothing /\ stage' = "running"
     \/ stage' = "failing"
  /\ UNCHANGED <<listening, chromeVars, handing, ackVars, writerVars>>

\* stop_screencast() takes the recorder from the table, so that it is stopped once.
StopIt ==
  /\ stage = "running" /\ stage' = "stopping"
  /\ UNCHANGED <<listening, chromeVars, handing, ackVars, writerVars>>

\* However Page.stopScreencast ends.
Unsubscribe ==
  /\ stage \in {"stopping", "failing"} /\ stage' = "unsubscribed"
  /\ listening' = FALSE /\ acks' = Append(acks, Stop)
  /\ UNCHANGED <<chromeVars, handing, asked, acker, writerVars>>

\* put() waits for room in the queue.
TellWriter ==
  /\ stage = "unsubscribed" /\ Len(frameQueue) < MaxQueue
  /\ stage' = "joining" /\ frameQueue' = Append(frameQueue, Stop)
  /\ UNCHANGED <<listening, chromeVars, handing, ackVars, writer, frames, rows>>

\* join() has a timeout.
Join ==
  /\ stage = "joining" /\ stage' = "over"
  /\ UNCHANGED <<listening, chromeVars, handing, ackVars, writerVars>>

-----------------------------------------------------------------------------
(* Chrome, and the reader thread.                                          *)

Cast ==
  /\ \/ stage = "starting" /\ ~casting /\ casting' = TRUE
     \/ stage = "stopping" /\ casting /\ casting' = FALSE
  /\ UNCHANGED <<callerVars, sent, handing, ackVars, writerVars>>

\* A frame arrives.  Who is no longer subscribed by then is not called, who is may be by the
\* time it is called.
Arrive ==
  /\ handing = Nothing /\ sent < MaxFrames
  /\ casting /\ \A f \in 1..sent : f + Window <= sent + 1 => f \in asked
  /\ sent' = sent + 1 /\ handing' = IF listening THEN sent' ELSE Nothing
  /\ UNCHANGED <<callerVars, casting, ackVars, writerVars>>

\* _on_event()
HandLazily ==            \* mutant: a frame there is no room for is not acknowledged
  /\ handing # Nothing /\ handing' = Nothing
  /\ IF Len(frameQueue) < MaxQueue
     THEN acks' = Append(acks, handing) /\ frameQueue' = Append(frameQueue, handing)
     ELSE UNCHANGED <<acks, frameQueue>>
  /\ UNCHANGED <<callerVars, chromeVars, asked, acker, writer, frames, rows>>
Hand ==
  /\ handing # Nothing /\ handing' = Nothing
  /\ acks' = Append(acks, handing)
  /\ frameQueue' = IF Len(frameQueue) < MaxQueue THEN Append(frameQueue, handing) ELSE frameQueue
  /\ UNCHANGED <<callerVars, chromeVars, asked, acker, writer, frames, rows>>

-----------------------------------------------------------------------------
(* _ack_frames(): a request that fails is counted, and the next one is made. *)

Ack ==
  /\ \/ /\ acker = "get" /\ acks # <<>> /\ acks' = Tail(acks)
        /\ IF Head(acks) = Stop THEN acker' = "ended" /\ UNCHANGED asked
           ELSE acker' = "request" /\ asked' = asked \cup {Head(acks)}
     \/ acker = "request" /\ acker' = "get" /\ UNCHANGED <<acks, asked>>
  /\ UNCHANGED <<callerVars, chromeVars, handing, writerVars>>

-----------------------------------------------------------------------------
(* _write_frames()                                                         *)

\* A frame whose data cannot be read is passed over.
Take ==
  /\ writer = "get" /\ frameQueue # <<>> /\ frameQueue' = Tail(frameQueue)
  /\ IF Head(frameQueue) = Stop THEN writer' = "ended" /\ UNCHANGED frames
     ELSE \/ writer' = "write" /\ frames' = frames + 1
          \/ writer' = "get" /\ UNCHANGED frames
  /\ UNCHANGED <<callerVars, chromeVars, handing, ackVars, rows>>

\* First the image, then its row.
Write ==
  /\ \/ writer = "write" /\ writer' = "row" /\ UNCHANGED rows
     \/ writer = "row" /\ writer' = "get" /\ rows' = Append(rows, frames)
  /\ UNCHANGED <<callerVars, chromeVars, handing, ackVars, frameQueue, frames>>

\* The disk is full, or prune() has deleted the directory: nobody catches the error.
WriteFails ==
  /\ writer \in {"write", "row"} /\ writer' = "died"
  /\ UNCHANGED <<callerVars, chromeVars, handing, ackVars, frameQueue, frames, rows>>

-----------------------------------------------------------------------------

Stops == Unsubscribe \/ TellWriter \/ Join
Next == Start \/ Started \/ StopIt \/ Stops \/ Cast \/ Arrive \/ Hand \/ Ack \/ Take \/ Write \/ WriteFails

\* Threads run, requests have timeouts, and a stop that has begun goes on when it can; nothing
\* is asked of Chrome or of the disk, nor that anybody stops the recording.
FairSpec ==
  /\ Init /\ [][Next]_castVars
  /\ WF_castVars(Hand) /\ WF_castVars(Ack) /\ WF_castVars(Take) /\ WF_castVars(Write \/ WriteFails)
  /\ WF_castVars(Stops)

\* Every frame that is handed over is acknowledged, also one there is no room for and also when
\* the writer has died ("even a discarded frame must be acknowledged or Chrome stops delivering
\* the entire screencast", screencast.py:83-84), unless the recording is stopped first.
AllAsked == \A f \in 1..MaxFrames : handing = f ~> f \in asked \/ ~listening

\* A stop ends, however full the queue is, if the writer lives.
StopEndsWithWriter == stage = "stopping" ~> stage = "over" \/ writer = "died"

\* What the source says: a failure at close never prevents "the rest of teardown, because a
\* cleanup that can abort cleanup is worse than none" (session.py:364-365).
StopEnds == stage = "stopping" ~> stage = "over"
=============================================================================
