------------------------------- MODULE Server -------------------------------
(***************************************************************************)
(* The accept loop of server.rs and the life of its handlers. One thread   *)
(* takes connections in turn, counts those in flight and refuses one too   *)
(* many; every other gets a thread, which reads a request line by line,    *)
(* works, writes the answer and gives its slot back. A timeout bounds each *)
(* read from the socket, not the request: its header is over with a blank  *)
(* line, or as one name too many comes. A thread that panics keeps its     *)
(* slot. The work shown is that on OverWatch, the one place where a        *)
(* handler takes something for granted that another may remove; the rest   *)
(* of it is in the other modules.                                          *)
(***************************************************************************)
EXTENDS OverWatch, FiniteSets

CONSTANTS
  MaxConnections,   \* max_connections
  MaxHeaders,       \* MAX_HEADER_COUNT
  MaxRequests       \* bound on the connections made

ASSUME ServerAssumption ==
  /\ MaxConnections \in Nat \ {0}
  /\ MaxHeaders \in Nat
  /\ MaxRequests \in Nat
  /\ Callers = 1..MaxRequests

VARIABLES
  active,   \* active_connections
  headers,  \* connection -> how many different header names have been read
  loop      \* the accept loop: its place, and the connection it is at with the number in flight

vars == <<sessions, writer, call, past, active, headers, loop>>

-----------------------------------------------------------------------------
(* The accept loop.                                                        *)

Accept ==
  /\ loop.pc = "accept"
  /\ loop.connection < MaxRequests
  /\ active' = active + 1
  /\ loop' = [pc |-> "admit", connection |-> loop.connection + 1, in_flight |-> active + 1]
  /\ UNCHANGED <<ovars, headers>>

\* The loop is back at its beginning; how many were in flight is of no more use.
Back == [loop EXCEPT !.pc = "accept", !.in_flight = 0]

Spawn ==
  /\ loop.pc = "admit"
  /\ loop.in_flight <= MaxConnections
  /\ call' = [call EXCEPT ![loop.connection].pc = "read"]
  /\ loop' = Back
  /\ UNCHANGED <<sessions, writer, past, active, headers>>

\* Variant with a fault: a refusal keeps the slot.
Returned_Kept == active

Returned == active - 1

\* The answer, 503, may be lost.
Refuse ==
  /\ loop.pc = "admit"
  /\ loop.in_flight > MaxConnections
  /\ active' = Returned
  /\ call' = [call EXCEPT ![loop.connection].pc = "closed"]
  /\ loop' = Back
  /\ UNCHANGED <<sessions, writer, past, headers>>

-----------------------------------------------------------------------------
(* A handler reads. Lines are the client's to send: no more than 8 KB each. *)

\* The request line, which has a method and a path or ends the connection.
ReadRequestLine(c) ==
  /\ call[c].pc = "read"
  /\ \E place \in {"headers", "release"} : call' = [call EXCEPT ![c].pc = place]
  /\ UNCHANGED <<sessions, writer, past, active, headers, loop>>

ReadHeaderLine(c) ==
  /\ call[c].pc = "headers"
  /\ call' = [call EXCEPT ![c].pc = "parse"]
  /\ UNCHANGED <<sessions, writer, past, active, headers, loop>>

\* Variant with a fault: the socket has no timeout.
Expires_Never(c) == FALSE

\* No read takes longer than the socket's timeout.
Expires(c) == call[c].pc \in {"read", "headers"}

\* The client falls silent, hangs up or sends a line too long: no answer to half a
\* request line, 431 to half a header.
TimeOut(c) ==
  /\ Expires(c)
  /\ call' = [call EXCEPT ![c].pc = IF @ = "read" THEN "release" ELSE "done"]
  /\ UNCHANGED <<sessions, writer, past, active, headers, loop>>

\* A blank line: the request is complete, but for the body, of a bounded length and
\* taken as far as it comes. It evaluates a text, ends or resets a session, or does
\* neither, an answer to a malformed one among them.
Receive(c) ==
  /\ call[c].pc = "parse"
  /\ \E s \in Sessions :
       \/ \E p \in Payloads :
            call' = [call EXCEPT ![c] = [Resting EXCEPT !.pc = "enter", !.session = s, !.payload = p]]
       \/ call' = [call EXCEPT ![c] = [Resting EXCEPT !.pc = "reset", !.session = s]]
       \/ call' = [call EXCEPT ![c].pc = "done"]
  /\ headers' = [headers EXCEPT ![c] = 0]
  /\ UNCHANGED <<sessions, writer, past, active, loop>>

\* Any other line, with as many names read as there may be: 431.
TooManyHeaders(c) ==
  /\ call[c].pc = "parse"
  /\ headers[c] >= MaxHeaders
  /\ call' = [call EXCEPT ![c].pc = "done"]
  /\ headers' = [headers EXCEPT ![c] = 0]
  /\ UNCHANGED <<sessions, writer, past, active, loop>>

\* A header of a name that is new.
NewHeader(c) ==
  /\ call[c].pc = "parse"
  /\ headers[c] < MaxHeaders
  /\ headers' = [headers EXCEPT ![c] = @ + 1]
  /\ call' = [call EXCEPT ![c].pc = "headers"]
  /\ UNCHANGED <<sessions, writer, past, active, loop>>

\* A line without a colon, or a header of a name read before: the map does not grow.
IdleLine(c) ==
  /\ call[c].pc = "parse"
  /\ headers[c] < MaxHeaders
  /\ call' = [call EXCEPT ![c].pc = "headers"]
  /\ UNCHANGED <<sessions, writer, past, active, headers, loop>>

Parse(c) == Receive(c) \/ TooManyHeaders(c) \/ NewHeader(c) \/ IdleLine(c)

-----------------------------------------------------------------------------
(* It works, answers and ends.                                             *)

Work(c) == OverWatchStep(c) /\ UNCHANGED <<active, headers, loop>>

\* The answer is written; whether it arrives makes no difference here.
Respond(c) ==
  /\ call[c].pc \in {"judged", "done"}
  /\ call' = [call EXCEPT ![c] = [Resting EXCEPT !.pc = "release"]]
  /\ UNCHANGED <<sessions, writer, past, active, headers, loop>>

Release(c) ==
  /\ call[c].pc = "release"
  /\ active' = active - 1
  /\ call' = [call EXCEPT ![c].pc = "closed"]
  /\ UNCHANGED <<sessions, writer, past, headers, loop>>

-----------------------------------------------------------------------------
Init ==
  /\ OverWatchInit
  /\ active = 0
  /\ headers = [c \in Callers |-> 0]
  /\ loop = [pc |-> "accept", connection |-> 0, in_flight |-> 0]

\* What a handler does when its client does nothing more.
OwnStep(c) == TimeOut(c) \/ Parse(c) \/ Work(c) \/ Respond(c) \/ Release(c)

Handle(c) == ReadRequestLine(c) \/ ReadHeaderLine(c) \/ OwnStep(c)

Next ==
  \/ Accept \/ Spawn \/ Refuse
  \/ \E c \in Callers : Handle(c)

Spec == Init /\ [][Next]_vars

\* A connection that was taken is dealt with, and a handler that can go on without
\* its client does. A read returns within the timeout, with a line or without one;
\* nothing is assumed of how many lines there are. That clients connect, or send
\* anything, is not assumed.
FairSpec ==
  /\ Spec
  /\ WF_vars(Spawn) /\ WF_vars(Refuse)
  /\ \A c \in Callers : WF_vars(OwnStep(c))

-----------------------------------------------------------------------------
\* The handlers whose thread is alive.
Live == {c \in Callers : call[c].pc \notin {"idle", "closed", "panicked"}}

TypeOK ==
  /\ DOMAIN sessions \subseteq Sessions
  /\ writer \in Callers \cup {Nobody}
  /\ active \in 0..MaxRequests
  /\ headers \in [Callers -> 0..MaxHeaders]
  /\ loop.pc \in {"accept", "admit"} /\ loop.connection \in 0..MaxRequests

\* server.rs:1207 "bounded connection concurrency": there are never more handlers
\* than configured, and a connection is refused only while that many are at work.
\* Slots that are not given back would turn the bound into an outage.
RefusedOnlyWhenFull ==
  [][/\ Cardinality(Live) <= MaxConnections
     /\ loop.pc = "accept" /\ loop'.pc = "admit" /\ loop'.in_flight > MaxConnections =>
          Cardinality(Live) = MaxConnections]_vars

\* server.rs:1208 "a per-connection socket read/write timeout applied before any bytes
\* are read": every connection taken is closed in the end and its slot returned, unless
\* its client sends for ever lines of which none brings a header not yet seen. A
\* client that is silent, stops half way, goes from one new header to the next or has
\* its request at work beside others cannot keep its slot.
EndsUnlessFed ==
  \A c \in Callers :
    []<><<IdleLine(c)>>_vars \/ ((loop.connection = c) ~> (call[c].pc = "closed"))

\* server.rs:1209 "otherwise a single slow/silent client can hold a handler thread
\* forever", as what the timeout rules out: every connection taken is closed in the
\* end. The code does not keep this: the timeout is for one read, and
\* MAX_HEADER_COUNT is compared with how many names the map has.
EveryConnectionEnds ==
  \A c \in Callers : (loop.connection = c) ~> (call[c].pc = "closed")

=============================================================================
