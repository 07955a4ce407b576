------------------------------- MODULE Session -------------------------------
(***************************************************************************)
(* One connection after it was accepted: handle_conn() and dispatch_one()  *)
(* of ipc/server.rs, reading frames with ipc/frame.rs through the          *)
(* Connection of ipc/command.rs, while the client goes on sending.         *)
(*                                                                         *)
(* A frame travels in two parts, header and body, and the client may stop  *)
(* after either.  The kind of a frame is what the server will make of it:  *)
(*   command            a request for a command of the router              *)
(*   unknown, untyped   no such command, no "type" string                  *)
(*   badjson, oversize  refused by the codec                               *)
(* A command is code of the daemon: it may reply() any number of times and *)
(* read_json() frames by itself, do what it likes with a failed read, and  *)
(* return Ok, an error or Hangup, or panic.                                *)
(* When a body is taken for a header the stream has lost its framing; the  *)
(* model goes as far as that and takes the garbage length to be too large. *)
(***************************************************************************)
EXTENDS Naturals, Sequences

CONSTANTS Modes,     \* the SessionModes to look at
          Kinds,     \* the kinds of frame the client may send
          MaxFrames, \* bound: frames of one connection
          MaxCalls   \* bound: calls of a command on its Connection

AllKinds == {"command", "unknown", "untyped", "badjson", "oversize"}

ASSUME ConstAssumption ==
  /\ Modes \subseteq {"OneShot", "Persistent"}
  /\ Kinds \subseteq AllKinds
  /\ MaxFrames \in Nat /\ MaxCalls \in Nat

VARIABLES mode,     \* SessionMode (never changes)
          stream,   \* parts on the way to the server
          nsent,    \* frames the client has started to send
          half,     \* kind of the frame whose body is not sent yet, or "no"
          eof,      \* "open", "closed" (EOF) or "reset" (ECONNRESET)
          phase,    \* what the handler thread does next
          reader,   \* who reads: "server" or "command"
          req,      \* the request being served
          calls,    \* calls its command has made on the Connection
          taken,    \* numbers of the frames taken as requests (history)
          served,   \* those whose command returned Ok (history)
          hung,     \* a command returned Hangup (history)
          log,      \* what the client is told: replies and hooks (history)
          lost,     \* a command's own read stopped inside a frame (history)
          misread   \* a body was taken for a header (history)

client == <<nsent, half, eof, mode>>
command == <<calls, served, hung>>
vars == <<mode, stream, nsent, half, eof, phase, reader, req, calls, taken,
          served, hung, log, lost, misread>>

\* handle_conn() has returned, or its thread has unwound
Over == phase \in {"done", "panicked"}

NoReq == [id |-> 0, kind |-> "none"]
Part(tag, id, kind) == [tag |-> tag, id |-> id, kind |-> kind]
Tell(what, id) == log' = Append(log, [what |-> what, id |-> id])

-----------------------------------------------------------------------------
Init ==
  /\ mode \in Modes
  /\ stream = <<>> /\ nsent = 0 /\ half = "no" /\ eof = "open"
  /\ phase = "auth" /\ reader = "server" /\ req = NoReq /\ calls = 0
  /\ taken = {} /\ served = {} /\ hung = FALSE
  /\ log = <<>> /\ lost = FALSE /\ misread = FALSE

\* ------------------------------ the client --------------------------------
SendHeader(k) ==
  /\ eof = "open" /\ half = "no" /\ nsent < MaxFrames /\ ~Over
  /\ nsent' = nsent + 1
  /\ half' = k
  /\ stream' = Append(stream, Part("header", nsent + 1, k))
  /\ UNCHANGED <<mode, eof, phase, reader, req, command, taken, log,
                 lost, misread>>

SendBody ==
  /\ eof = "open" /\ half # "no" /\ ~Over
  /\ half' = "no"
  /\ stream' = Append(stream, Part("body", nsent, half))
  /\ UNCHANGED <<mode, nsent, eof, phase, reader, req, command, taken, log,
                 lost, misread>>

\* The client is gone: read(2) returns 0, or ECONNRESET when it left
\* replies unread.  Parts sent before are read first.
Leave(how) ==
  /\ eof = "open"
  /\ eof' = how
  /\ UNCHANGED <<mode, stream, nsent, half, phase, reader, req, command, taken, log,
                 lost, misread>>

\* ------------------------------ the handler -------------------------------
\* auth.allows() may answer either way here; hooks.reject(Auth), then drop
CheckAuth ==
  /\ phase = "auth"
  /\ \/ phase' = "header" /\ UNCHANGED log
     \/ phase' = "done" /\ Tell("reject", 0)
  /\ UNCHANGED <<stream, client, reader, req, command, taken, lost, misread>>

\* dispatch_one() returned Ok: the persistent loop reads the next request
NextRequest == phase' = IF mode = "Persistent" THEN "header" ELSE "done"

\* Mutant: the persistent loop goes on after every error but EOF.
SessionFailsSoft(err, id) ==
  IF mode = "Persistent" /\ err \in {"eof", "reset"}
  THEN phase' = "done" /\ UNCHANGED log
  ELSE NextRequest /\ Tell("error", id)

\* Mutant: every error ends the session without a word.
SessionFailsMute(err, id) == phase' = "done" /\ UNCHANGED log

\* Mutant: EOF is taken for "nothing to read yet" in both modes.
SessionFailsRetry(err, id) ==
  IF err \in {"eof", "reset"}
  THEN phase' = "header" /\ UNCHANGED log
  ELSE phase' = "done" /\ Tell("error", id)

\* Mutant: the persistent loop reports EOF like any other error.
SessionFailsLoud(err, id) == phase' = "done" /\ Tell("error", id)

\* dispatch_one() returned Err: the session is over.  A persistent session
\* says nothing about EOF and reset, a one-shot session reports all errors.
SessionFails(err, id) ==
  /\ phase' = "done"
  /\ IF mode = "Persistent" /\ err \in {"eof", "reset"}
     THEN UNCHANGED log
     ELSE Tell("error", id)

\* A read returned Err.  A command gets it as the result of read_json() and
\* goes on as it likes, whatever the read has consumed.
ReadFails(err, id) ==
  IF reader = "server"
  THEN SessionFails(err, id) /\ UNCHANGED <<reader, lost>>
  ELSE /\ phase' = "dispatch"
       /\ reader' = "server"
       /\ lost' = (lost \/ err \in {"too_large", "io"})
       /\ UNCHANGED log

\* Mutant: the length is not compared with max_frame.
ReadHeaderNoLimit ==
  /\ phase = "header" /\ stream # <<>>
  /\ stream' = Tail(stream)
  /\ phase' = "body"
  /\ UNCHANGED <<client, reader, req, command, taken, log,
                 lost, misread>>

\* read_exact() of the four header bytes, and the test against max_frame
ReadHeader ==
  /\ phase = "header" /\ stream # <<>>
  /\ stream' = Tail(stream)
  /\ LET part == Head(stream) IN
     /\ misread' = (misread \/ part.tag = "body")
     /\ IF part.tag = "body" \/ part.kind = "oversize"
        THEN ReadFails("too_large", part.id)
        ELSE phase' = "body" /\ UNCHANGED <<reader, log, lost>>
  /\ UNCHANGED <<client, req, command, taken>>

\* read_exact() of the payload, then serde_json::from_slice()
ReadBody ==
  /\ phase = "body" /\ stream # <<>>
  /\ stream' = Tail(stream)
  /\ LET part == Head(stream) IN
     CASE part.kind = "badjson" ->
            /\ ReadFails("json", part.id)
            /\ UNCHANGED <<req, calls, taken>>
       [] part.kind # "badjson" /\ reader = "server" ->
            /\ phase' = "dispatch"
            /\ req' = [id |-> part.id, kind |-> part.kind]
            /\ calls' = 0
            /\ taken' = taken \cup {part.id}
            /\ UNCHANGED <<reader, log, lost>>
       [] part.kind # "badjson" /\ reader = "command" ->
            /\ phase' = "dispatch"
            /\ reader' = "server"
            /\ UNCHANGED <<req, calls, taken, log, lost>>
  /\ UNCHANGED <<client, served, hung, misread>>

\* read(2) returns 0 or ECONNRESET, at a frame boundary or inside a frame
ReadEnd ==
  /\ phase \in {"header", "body"}
  /\ stream = <<>> /\ eof # "open"
  /\ ReadFails(IF eof = "closed" THEN "eof" ELSE "reset", 0)
  /\ UNCHANGED <<stream, client, req, command, taken, misread>>

\* any other error of read(2): EINTR, or a timeout a command has set
ReadIoError ==
  /\ phase \in {"header", "body"}
  /\ ReadFails("io", 0)
  /\ UNCHANGED <<stream, client, req, command, taken, misread>>

\* Mutant: a request without a type is dropped without a word.
NotFoundDropsUntyped ==
  /\ phase = "dispatch" /\ req.kind \in {"unknown", "untyped"}
  /\ NextRequest
  /\ IF req.kind = "untyped" THEN UNCHANGED log ELSE Tell("unknown", req.id)
  /\ UNCHANGED <<stream, client, reader, req, command, taken, lost, misread>>

\* json_type_field(), router.get() and hooks.unknown()
NotFound ==
  /\ phase = "dispatch" /\ req.kind \in {"unknown", "untyped"}
  /\ NextRequest
  /\ Tell("unknown", req.id)
  /\ UNCHANGED <<stream, client, reader, req, command, taken, lost, misread>>

\* the command of the request runs
Executing == phase = "dispatch" /\ req.kind = "command"

\* it calls conn.reply(); a reply that cannot be written is not one
Reply ==
  /\ Executing /\ calls < MaxCalls
  /\ calls' = calls + 1
  /\ Tell("reply", req.id)
  /\ UNCHANGED <<stream, client, phase, reader, req, taken, served, hung, lost, misread>>

\* it calls conn.read_json()
ReadJson ==
  /\ Executing /\ calls < MaxCalls
  /\ calls' = calls + 1
  /\ phase' = "header" /\ reader' = "command"
  /\ UNCHANGED <<stream, client, req, taken, served, hung, log, lost, misread>>

\* cmd.execute() returns Ok
ReturnsOk ==
  /\ Executing
  /\ NextRequest
  /\ served' = served \cup {req.id}
  /\ UNCHANGED <<stream, client, reader, req, calls, taken, hung, log, lost, misread>>

\* Mutant: the error of a command is reported by dispatch_one() and again
\* by the session.
ReturnsErrTwice ==
  /\ Executing
  /\ NextRequest
  /\ log' = log \o [i \in 1 .. 2 |-> [what |-> "error", id |-> req.id]]
  /\ UNCHANGED <<stream, client, reader, req, command, taken, lost, misread>>

\* it returns an error, whatever it has written before; hooks.error()
ReturnsErr ==
  /\ Executing
  /\ NextRequest
  /\ Tell("error", req.id)
  /\ UNCHANGED <<stream, client, reader, req, command, taken, lost, misread>>

\* It returns Hangup, which dispatch_one() turns into UnexpectedEof.
ReturnsHangup ==
  /\ Executing
  /\ hung' = TRUE
  /\ SessionFails("eof", req.id)
  /\ UNCHANGED <<stream, client, reader, req, calls, taken, served, lost, misread>>

\* A command or a hook panics and the thread of the session unwinds; a hook
\* is taken to panic before it writes.  (While the server reads: read(2) fails
\* and hooks.error() panics.)
Panics ==
  /\ ~Over /\ reader = "server"
  /\ phase' = "panicked"
  /\ UNCHANGED <<stream, client, reader, req, command, taken, log, lost, misread>>

Handler ==
  \/ CheckAuth \/ ReadHeader \/ ReadBody \/ ReadEnd \/ NotFound
  \/ Reply \/ ReadJson \/ ReturnsOk \/ ReturnsErr \/ ReturnsHangup

Next ==
  \/ Handler \/ ReadIoError \/ Panics \/ SendBody
  \/ \E k \in Kinds : SendHeader(k)
  \/ \E how \in {"closed", "reset"} : Leave(how)

Spec == Init /\ [][Next]_vars

\* The handler thread is scheduled again and again, and commands return.
\* Nobody needs to panic.
FairSpec == Spec /\ WF_vars(Handler)

-----------------------------------------------------------------------------
\* Type invariant; only what the codec let through is dispatched.
TypeOK ==
  /\ mode \in Modes
  /\ stream \in Seq([tag : {"header", "body"}, id : 1 .. MaxFrames, kind : Kinds])
  /\ nsent \in 0 .. MaxFrames
  /\ half \in Kinds \cup {"no"}
  /\ eof \in {"open", "closed", "reset"}
  /\ phase \in {"auth", "header", "body", "dispatch", "done", "panicked"}
  /\ reader \in {"server", "command"}
  /\ req \in [id : 1 .. MaxFrames, kind : Kinds] \cup {NoReq}
  /\ calls \in 0 .. MaxCalls
  /\ taken \subseteq 1 .. MaxFrames /\ served \subseteq 1 .. MaxFrames
  /\ log \in Seq([what : {"reply", "error", "unknown", "reject"}, id : 0 .. MaxFrames])
  /\ hung \in BOOLEAN /\ lost \in BOOLEAN /\ misread \in BOOLEAN
  /\ phase = "dispatch" => req.kind \in {"command", "unknown", "untyped"}

\* The server never takes payload bytes for a header, unless a command's own
\* read_json() gave up inside a frame: after FrameError::TooLarge of its own
\* read it leaves the loop.
StaysAligned == misread => lost

\* What the client is told comes in the order of the requests, however it
\* pipelines, and the server's own word about a request (hooks.error() or
\* hooks.unknown()) is said once and is the last: only replies of its command
\* come before it, and nothing after.  (id 0: not about a request, said last)
AnswersInOrder ==
  \A i, j \in DOMAIN log : i < j =>
    /\ log[i].id # 0 /\ (log[j].id = 0 \/ log[i].id <= log[j].id)
    /\ log[i].id = log[j].id => log[i].what = "reply"

\* Before the server reads on, every request it took has been settled: its
\* command returned Ok, or the client was told by hooks.error() or
\* hooks.unknown().  (A command that returns Ok has replied as it saw fit.)
NoneSkipped ==
  phase = "header" /\ reader = "server" =>
    \A t \in taken :
      \/ t \in served
      \/ \E i \in DOMAIN log : log[i].id = t /\ log[i].what \in {"error", "unknown"}

\* The last entry of the log is a word of the server's own, about the last
\* request it took, a later frame, or none.
LastWord ==
  /\ log # <<>>
  /\ log[Len(log)].what # "reply"
  /\ log[Len(log)].id = 0 \/ taken \subseteq 1 .. log[Len(log)].id

\* handle_conn() returns, and so hangs up, without a last word of its own only
\* after a one-shot command that returned Ok, and in a persistent session when
\* the client has left or a command returned Hangup.  (A handler that panics
\* does not return: its client gets no word in either mode.)
NoSilentDrop ==
  phase = "done" =>
    \/ LastWord
    \/ mode = "OneShot" /\ req.id \in served
    \/ mode = "Persistent" /\ (eof # "open" \/ hung)

\* "End the session without writing an error" (IpcError::Hangup): about the
\* request that was hung up on the client is told what its command wrote.
HangupIsSilent ==
  hung => \A i \in DOMAIN log : log[i].id = req.id => log[i].what = "reply"

\* What holds of it: a persistent session keeps the promise (the silent
\* UnexpectedEof arm of handle_conn()).
PersistentHangupIsSilent == mode = "Persistent" => HangupIsSilent

\* A client that is gone never keeps its handler thread: EOF at any point of a
\* frame, read by the server or by a command, ends the session.
GoneClientEndsSession == eof # "open" ~> Over
=============================================================================
