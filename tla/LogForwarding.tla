---------------------------- MODULE LogForwarding ----------------------------
(***************************************************************************)
(* Runner::handle_logs (runner.rs 359-405) with CleanupContainer::         *)
(* handle_log and handle_log_line (container.rs 100-218): after the test   *)
(* body, the orchestrating task walks the cleanup containers in order and, *)
(* for each one whose log options apply, opens the log file if the action *)
(* forwards to a file, then reads the daemon's log stream line by line and *)
(* writes each line to the sink its action names.  The first error of any *)
(* container is returned with `?`.                                         *)
(*                                                                         *)
(* A line is its kind (which output it came from); its text is left out.   *)
(* The daemon delivers only the outputs the options asked for, plus the    *)
(* console output of a TTY container.  Every read, file creation and write *)
(* may fail.                                                               *)
(***************************************************************************)
EXTENDS Naturals, Sequences, SequencesExt

CONSTANTS
  N,          \* the number of containers in the cleanup vector
  Options,    \* the LogOptions records a container may carry
  MaxLines    \* the longest log stream of one container

ASSUME N \in Nat /\ MaxLines \in Nat

Ctr == 1..N
Kinds == {"StdOut", "StdErr", "Console"}
Sinks == {"stdout", "stderr", "file", "none"}

VARIABLES
  opts,     \* opts[c]: the Option<LogOptions> of container c, of length <= 1
  failed,   \* result.is_err() of the test body
  i,        \* the container the loop is at
  pc,       \* "loop", "open" (creating the file), "stream", "done"
  file,     \* the Option<File> of handle_log: TRUE when Some
  pos,      \* lines read from the current stream
  read,     \* history: <<container, kind>> of every line the daemon delivered
  ended,    \* history: the containers whose stream reached its end
  out,      \* <<container, kind, sink>> of every line written, in order
  result    \* "pending", "ok", or "err" (of container i)

vars == <<opts, failed, i, pc, file, pos, read, ended, out, result>>

(***************************************************************************)
(* The match on log_options.source in handle_logs: which of the daemon's  *)
(* outputs LogsOptions asks for.                                           *)
(***************************************************************************)
Requested(source) ==
  CASE source = "StdErr" -> {"StdErr"}
    [] source = "StdOut" -> {"StdOut"}
    [] source = "Both"   -> {"StdOut", "StdErr"}

(***************************************************************************)
(* The match of handle_log_line: where a line of each kind goes under each *)
(* action.  StdIn and Console lines are dropped under every action.        *)
(***************************************************************************)
Sink(action, kind) ==
  IF kind = "Console" THEN "none"
  ELSE CASE action = "Forward"         -> IF kind = "StdOut" THEN "stdout"
                                                             ELSE "stderr"
         [] action = "ForwardToStdErr" -> "stderr"
         [] action = "ForwardToStdOut" -> "stdout"
         [] action = "ForwardToFile"   -> "file"

\* The options of the container the loop is at.
Opt == Head(opts[i])

Init ==
  /\ opts \in [Ctr -> {<<>>} \cup {<<o>> : o \in Options}]
  /\ failed \in BOOLEAN
  /\ i = 1
  /\ pc = "loop"
  /\ file = FALSE
  /\ pos = 0
  /\ read = <<>>
  /\ ended = {}
  /\ out = <<>>
  /\ result = "pending"

\* An error returned with `?`: handle_logs returns it, i names the container.
Fail == pc' = "done" /\ result' = "err"

NextContainerReturnOnSkip ==
  /\ pc = "loop"
  /\ IF i > N \/ opts[i] = <<>> \/ (Opt.policy = "OnError" /\ ~failed)
     THEN pc' = "done" /\ result' = "ok" /\ UNCHANGED <<i, file>>
     ELSE /\ pc' = IF Opt.action = "ForwardToFile" THEN "open" ELSE "stream"
          /\ file' = FALSE
          /\ UNCHANGED <<i, result>>
  /\ pos' = 0
  /\ UNCHANGED <<opts, failed, read, ended, out>>

(***************************************************************************)
(* One iteration of the for loop of handle_logs: a container without log  *)
(* options, or with OnError after a passing test, is skipped (continue); *)
(* otherwise handle_log is called, which creates the file for             *)
(* ForwardToFile and starts the stream.  After the last container the     *)
(* loop returns Ok.                                                        *)
(***************************************************************************)
NextContainer ==
  /\ pc = "loop"
  /\ IF i > N
     THEN pc' = "done" /\ result' = "ok" /\ UNCHANGED <<i, file>>
     ELSE IF opts[i] = <<>> \/ (Opt.policy = "OnError" /\ ~failed)
     THEN i' = i + 1 /\ UNCHANGED <<pc, file, result>>
     ELSE /\ pc' = IF Opt.action = "ForwardToFile" THEN "open" ELSE "stream"
          /\ file' = FALSE
          /\ UNCHANGED <<i, result>>
  /\ pos' = 0
  /\ UNCHANGED <<opts, failed, read, ended, out>>

\* tokio::fs::File::create of path/name; its error is returned with `?`.
OpenFile ==
  /\ pc = "open"
  /\ \E ok \in BOOLEAN :
       IF ok THEN file' = TRUE /\ pc' = "stream" /\ UNCHANGED result
             ELSE Fail /\ UNCHANGED file
  /\ UNCHANGED <<opts, failed, i, pos, read, ended, out>>

(***************************************************************************)
(* stream.next().await returns None: handle_log returns Ok and the loop   *)
(* moves to the next container.                                            *)
(***************************************************************************)
StreamEnd ==
  /\ pc = "stream"
  /\ ended' = ended \cup {i}
  /\ i' = i + 1
  /\ pc' = "loop"
  /\ UNCHANGED <<opts, failed, file, pos, read, out, result>>

(***************************************************************************)
(* stream.next().await returns a line or an error.  A read error returns  *)
(* at once.  A line goes through handle_log_line: it is dropped, written   *)
(* to stdout or stderr, or written to the file, which must be Some; a     *)
(* failed write is returned with `?`.                                      *)
(***************************************************************************)
ReadLine ==
  /\ pc = "stream" /\ pos < MaxLines
  /\ \/ Fail /\ UNCHANGED <<read, out, pos>>
     \/ \E kind \in Requested(Opt.source) \cup {"Console"}, writeOk \in BOOLEAN :
          LET sink == Sink(Opt.action, kind)
          IN  /\ read' = Append(read, <<i, kind>>)
              /\ pos' = pos + 1
              /\ IF sink = "none"
                 THEN UNCHANGED <<out, pc, result>>
                 ELSE IF (sink = "file" /\ ~file) \/ ~writeOk
                 THEN Fail /\ UNCHANGED out
                 ELSE out' = Append(out, <<i, kind, sink>>) /\ UNCHANGED <<pc, result>>
  /\ UNCHANGED <<opts, failed, i, file, ended>>

\* handle_logs has returned; run_impl goes on to teardown or returns.
Done == pc = "done" /\ UNCHANGED vars

Next == NextContainer \/ OpenFile \/ StreamEnd \/ ReadLine \/ Done

Spec == Init /\ [][Next]_vars

(***************************************************************************)
(* The containers whose logs handle_logs should forward, and where each    *)
(* kind of line belongs, stated from the log options directly.             *)
(***************************************************************************)
Applies == {c \in Ctr : opts[c] # <<>> /\
                        (Head(opts[c]).policy = "Always" \/ failed)}
Expected(e) ==
  LET a == Head(opts[e[1]]).action
      k == e[2]
  IN  <<e[1], k, IF a = "ForwardToFile" THEN "file"
                 ELSE IF a = "ForwardToStdOut" \/ (a = "Forward" /\ k = "StdOut")
                 THEN "stdout" ELSE "stderr">>

(***************************************************************************)
(* The logs of the test's containers are forwarded as configured, one      *)
(* container after another: only containers whose options apply are read, *)
(* in cleanup order; every stdout and stderr line read is written, in      *)
(* order, to the sink its action names, except a last line whose write     *)
(* failed; Ok means every applicable stream was read to its end, and an    *)
(* error of one container leaves every later container's logs unread.     *)
(***************************************************************************)
LogsForwardedAsConfigured ==
  LET sel     == SelectSeq(read, LAMBDA e : e[2] # "Console")
      written == [k \in DOMAIN sel |-> Expected(sel[k])]
  IN  /\ \A k \in DOMAIN read : read[k][1] \in Applies
      /\ \A j, k \in DOMAIN read : j < k => read[j][1] <= read[k][1]
      /\ IsPrefix(out, written)
      /\ Len(written) - Len(out) <= IF result = "err" THEN 1 ELSE 0
      /\ result = "ok" => ended = Applies
      /\ result = "err" => /\ i \in Applies
                           /\ ended = {c \in Applies : c < i}
                           /\ \A k \in DOMAIN read : read[k][1] <= i
=============================================================================
