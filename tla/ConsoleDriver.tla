---------------------------- MODULE ConsoleDriver ----------------------------
(***************************************************************************)
(* tests/vm/ftpm-console-driver.py against a guest on a serial console.    *)
(*                                                                         *)
(* The driver waits for something that looks like a shell prompt, types a  *)
(* script into the guest piece by piece, has it decoded and run, and takes *)
(* the digits after a marker for the exit code of the script.  Nothing is  *)
(* acknowledged: a line typed before the getty is up is gone, a terminal   *)
(* that still echoes shows the marker of the line typed, and a read may    *)
(* end anywhere.                                                           *)
(*                                                                         *)
(* The console carries tokens: the digits 0 to 9, and what is not a digit  *)
(* as one of Marker, Prompt (any of PROMPT_MARKERS) and Text.              *)
(*                                                                         *)
(* An operator marked "Slip" is a plausible mistake in the definition that *)
(* follows it.  No behaviour of Spec uses it; PROJECT.json names the       *)
(* property that notices it.                                               *)
(***************************************************************************)
EXTENDS Naturals, Sequences, FiniteSetsExt

CONSTANTS Chunks,   \* lines the payload is typed in
          Codes,    \* exit codes of the script, as digits
          Numbers,  \* digits in what the guest prints besides
          Chatter   \* bound: how often the guest prints of its own accord

ASSUME ChunksAssumption == Chunks \in Nat \ {0}
ASSUME ConsoleAssumption == /\ Numbers \subseteq 0 .. 9 /\ Chatter \in Nat
                            /\ Codes \subseteq Seq(0 .. 9) /\ <<>> \notin Codes

VARIABLES
    pc,      \* where the driver is
    sent,    \* payload lines typed so far
    buf,     \* what it has read since buf.clear(); before, only a prompt counts
    exit,    \* how it ended, and with which code
    late,    \* the deadline has passed
    qemu,    \* "absent", "up" or "gone"
    con,     \* printed by the guest and not read yet
    guest,   \* "boot", "login" or "shell"
    echo,    \* the terminal shows what is typed
    typed,   \* lines the shell has not taken yet
    file,    \* the payload lines in the guest's file, in order
    script,  \* "no", "missing", "runs" or "over"
    truth,   \* the exit code of the command that decodes and runs it
    talk,    \* how often the guest may still print of its own accord
    shown    \* history: the last line was echoed

driver == <<pc, sent, buf, exit>>
inside == <<file, script, truth>>
vars   == <<pc, sent, buf, exit, late, qemu, con, guest, echo, typed, file,
            script, truth, talk, shown>>

Marker == 10
Prompt == 11
Text   == 12
Lines  == {"nudge", "reset", "chunk", "final"}
NoExit == [how |-> "no", code |-> 0]
NoFile == <<0>>

-----------------------------------------------------------------------------
(* What the driver makes of what it has read.                              *)

Has(b, t) == \E i \in DOMAIN b : b[i] = t

\* bytes(buf).split(RC_MARKER)[-1]
AfterMarker(b) == SubSeq(b, Max({i \in DOMAIN b : b[i] = Marker}) + 1, Len(b))

\* Slip: the digits are collected past the first character that is none.
SlipDigits(b) == SelectSeq(AfterMarker(b), LAMBDA t : t < 10)

\* The first digits after the last marker, as far as they have been read.
Digits(b) ==
    LET t    == AfterMarker(b)
        nums == {i \in DOMAIN t : t[i] < 10}
        past == {i \in DOMAIN t : i \notin nums /\ i > Min(nums)}
    IN  IF nums = {} THEN <<>>
        ELSE SubSeq(t, Min(nums), Min(past \union {Len(t) + 1}) - 1)

\* sys.exit(int(digits)), as a parent process sees it.
Status(d) ==
    LET value[k \in 0 .. Len(d)] == IF k = 0 THEN 0 ELSE 10 * value[k - 1] + d[k]
    IN  value[Len(d)] % 256

\* Exit codes are printed without leading zeros and below 256: only of 0 is the
\* beginning a 0.
ASSUME CodesAssumption ==
    \A c \in Codes : \A k \in 1 .. Len(c) : Status(SubSeq(c, 1, k)) = 0 => c = <<0>>

-----------------------------------------------------------------------------
(* The two ends of the console.                                            *)

\* One recv: k tokens of what is there, or none after two seconds (still
\* connected) or at the end of the stream.
Pump(k, connected) ==
    \/ k \in 1 .. Len(con) /\ connected /\ con' = SubSeq(con, k + 1, Len(con))
    \/ k = 0 /\ con = <<>> /\ connected = (qemu = "up") /\ UNCHANGED con

Read(k) == buf' = buf \o SubSeq(con, 1, k)

\* A line reaches the terminal.  Before the getty has opened it the line is
\* dropped, and it may be echoed all the same.
Type(line, i) ==
    /\ qemu = "up"
    /\ \E e \in IF guest = "boot" THEN BOOLEAN ELSE {echo} :
         /\ shown' = (shown \/ (e /\ line = "final"))
         /\ con' = IF e /\ line = "final" THEN con \o <<Marker, Text>> ELSE con
    /\ typed' = IF guest = "boot" \/ (line = "nudge" /\ typed # <<>>) THEN typed
                ELSE Append(typed, [line |-> line, part |-> i])

\* Nothing but the driver and the two buffers between them changes.
Aside == UNCHANGED <<late, qemu, guest, echo, inside, talk>>
Quiet == UNCHANGED <<con, typed, shown>>

Return(how, code) ==
    pc' = "done" /\ exit' = [how |-> how, code |-> code]
Skip == Return("skip", 77)

-----------------------------------------------------------------------------
(* The driver.                                                             *)

Connect ==
    /\ pc = "connect" /\ Aside /\ Quiet /\ UNCHANGED <<sent, buf>>
    /\ \/ ~late /\ qemu = "up" /\ pc' = "look" /\ UNCHANGED exit
       \/ late /\ Skip

\* Read, and look for a prompt; twice before a newline is typed.
Look ==
    /\ pc \in {"look", "relook"} /\ (pc = "look" => ~late)
    /\ \E k \in 0 .. Len(con), connected \in BOOLEAN :
         /\ Pump(k, connected)
         /\ pc' = IF Has(SubSeq(con, 1, k), Prompt) THEN "reset"
                  ELSE IF pc = "look" THEN "relook" ELSE "nudge"
    /\ Aside /\ UNCHANGED <<sent, buf, exit, typed, shown>>

Nudge ==
    /\ pc = "nudge" /\ Aside /\ UNCHANGED <<sent, buf>>
    /\ \/ Type("nudge", 0) /\ pc' = "look" /\ UNCHANGED exit
       \/ qemu # "up" /\ Skip /\ Quiet

NoPrompt ==
    /\ pc = "look" /\ late /\ Skip
    /\ Aside /\ Quiet /\ UNCHANGED <<sent, buf>>

\* stty -echo; rm -f /tmp/yubios-verify.b64
Reset ==
    /\ pc = "reset" /\ Type("reset", 0) /\ pc' = "feed" /\ sent' = 0
    /\ Aside /\ UNCHANGED <<buf, exit>>

\* Slip: one piece too many.
SlipFeedOver ==
    /\ pc = "feed" /\ Aside /\ UNCHANGED <<buf, exit>>
    /\ \/ /\ sent <= Chunks /\ Type("chunk", sent + 1)
          /\ sent' = sent + 1 /\ pc' = "drain"
       \/ sent > Chunks /\ pc' = "final" /\ Quiet /\ UNCHANGED sent

\* Slip: one piece too few.
SlipFeed ==
    /\ pc = "feed" /\ Aside /\ UNCHANGED <<buf, exit>>
    /\ \/ /\ sent + 1 < Chunks /\ Type("chunk", sent + 1)
          /\ sent' = sent + 1 /\ pc' = "drain"
       \/ sent + 1 = Chunks /\ pc' = "final" /\ Quiet /\ UNCHANGED sent

Feed ==
    /\ pc = "feed" /\ Aside /\ UNCHANGED <<buf, exit>>
    /\ \/ /\ sent < Chunks /\ Type("chunk", sent + 1)
          /\ sent' = sent + 1 /\ pc' = "drain"
       \/ sent = Chunks /\ pc' = "final" /\ Quiet /\ UNCHANGED sent

\* Its read only keeps the socket empty: Final clears buf.
Drain ==
    /\ pc = "drain" /\ pc' = "feed"
    /\ \E k \in 0 .. Len(con), connected \in BOOLEAN :
         Pump(k, connected)
    /\ Aside /\ UNCHANGED <<sent, buf, exit, typed, shown>>

\* buf.clear(), then the line that decodes and runs the script.
Final ==
    /\ pc = "final" /\ buf' = <<>> /\ Type("final", 0) /\ pc' = "wait"
    /\ Aside /\ UNCHANGED <<sent, exit>>

\* Of the sends only the newline of the prompt loop is guarded.
SendRaises ==
    /\ qemu # "up"
    /\ pc \in {"reset", "final"} \/ (pc = "feed" /\ sent < Chunks)
    /\ Return("raised", 1)
    /\ Aside /\ Quiet /\ UNCHANGED <<sent, buf>>

\* Slip: the deadline is not looked at.
SlipWait ==
    /\ pc = "wait" /\ ~Has(buf, Marker) /\ Aside
    /\ \E k \in 0 .. Len(con), connected \in BOOLEAN :
         /\ Pump(k, connected) /\ Read(k)
         /\ IF connected THEN UNCHANGED <<pc, exit>> ELSE Skip
    /\ UNCHANGED <<sent, typed, shown>>

Wait ==
    /\ pc = "wait" /\ ~Has(buf, Marker) /\ Aside
    /\ \/ /\ ~late
          /\ \E k \in 0 .. Len(con), connected \in BOOLEAN :
               /\ Pump(k, connected) /\ Read(k)
               /\ IF connected THEN UNCHANGED <<pc, exit>> ELSE Skip
       \/ late /\ Skip /\ UNCHANGED <<buf, con>>
    /\ UNCHANGED <<sent, typed, shown>>

Parse ==
    /\ pc = "wait" /\ Has(buf, Marker)
    /\ IF Digits(buf) = <<>> THEN pc' = "reparse" /\ UNCHANGED exit
       ELSE Return("code", Status(Digits(buf)))
    /\ Aside /\ Quiet /\ UNCHANGED <<sent, buf>>

\* Up to thirty seconds more for digits; the time may be over at any read.
Reparse ==
    /\ pc = "reparse" /\ Aside
    /\ \/ \E k \in 0 .. Len(con), connected \in BOOLEAN :
            /\ Pump(k, connected) /\ Read(k)
            /\ IF ~connected THEN Skip
               ELSE IF Digits(buf') = <<>> THEN UNCHANGED <<pc, exit>>
               ELSE Return("code", Status(Digits(buf')))
       \/ Skip /\ UNCHANGED <<buf, con>>
    /\ UNCHANGED <<sent, typed, shown>>

DriverStep == \/ Connect \/ Look \/ Nudge \/ NoPrompt \/ Reset \/ Feed \/ Drain
              \/ Final \/ SendRaises \/ Wait \/ Parse \/ Reparse

-----------------------------------------------------------------------------
(* The guest, its console and the clock.                                   *)

Host == UNCHANGED <<driver, late>>

Show(tokens) == con' = con \o tokens

\* QEMU makes the socket; it may go away, with what was printed still there.
Qemu ==
    /\ qemu' = CASE qemu = "absent" -> "up" [] OTHER -> "gone"
    /\ qemu # "gone"
    /\ Host /\ Quiet /\ UNCHANGED <<guest, echo, inside, talk>>

\* Boot log, kernel messages and the output of the script: numbers, and before
\* the login also what looks like a prompt.
Chat ==
    /\ qemu = "up" /\ talk > 0 /\ talk' = talk - 1
    /\ \/ guest = "boot" /\ Show(<<Prompt>>)
       \/ \E n \in Numbers : Show(<<n, Text>>)
    /\ Host /\ UNCHANGED <<qemu, guest, echo, typed, inside, shown>>

\* The getty opens the terminal; then the shell is up.
LogIn ==
    /\ qemu = "up" /\ guest # "shell"
    /\ \/ guest = "boot" /\ guest' = "login" /\ UNCHANGED con
       \/ guest = "login" /\ guest' = "shell" /\ Show(<<Prompt>>)
    /\ Host /\ UNCHANGED <<qemu, echo, typed, inside, talk, shown>>

\* The shell takes the next line.  The last one runs what is in the file,
\* which need not be all of the script.
Take ==
    /\ qemu = "up" /\ guest = "shell" /\ script # "runs" /\ typed # <<>>
    /\ typed' = Tail(typed)
    /\ LET line == Head(typed).line IN
       /\ echo' = (echo /\ line # "reset")
       /\ file' = CASE line = "reset" -> NoFile
                    [] line = "chunk" ->
                         (IF file = NoFile THEN <<>> ELSE file) \o <<Head(typed).part>>
                    [] OTHER -> file
       /\ IF line # "final" THEN Show(<<Prompt>>) /\ UNCHANGED <<script, truth>>
          ELSE IF file = NoFile
          THEN /\ script' = "missing" /\ truth' = <<1>>
               /\ Show(<<Marker, 1, Text, Prompt>>)
          ELSE script' = "runs" /\ truth' \in Codes /\ UNCHANGED con
    /\ Host /\ UNCHANGED <<qemu, guest, talk, shown>>

\* The marker and the code are printed together: nothing of the kernel's comes
\* between them.
ScriptEnds ==
    /\ qemu = "up" /\ script = "runs" /\ script' = "over"
    /\ Show(<<Marker>> \o truth \o <<Text, Prompt>>)
    /\ Host /\ UNCHANGED <<qemu, guest, echo, typed, file, truth, talk, shown>>

Tick ==
    /\ ~late /\ late' = TRUE
    /\ UNCHANGED <<driver, qemu, con, guest, echo, typed, inside, talk, shown>>

Init ==
    /\ pc = "connect" /\ sent = 0 /\ buf = <<>> /\ exit = NoExit /\ late = FALSE
    /\ qemu = "absent" /\ con = <<>> /\ guest = "boot" /\ echo = TRUE
    /\ typed = <<>> /\ file = NoFile /\ script = "no" /\ truth = <<>>
    /\ talk = Chatter /\ shown = FALSE

Next == DriverStep \/ Qemu \/ Chat \/ LogIn \/ Take \/ ScriptEnds \/ Tick

\* The driver goes on as long as it can, and time passes.  Nothing is asked of
\* the guest, which may hang anywhere.
Spec == Init /\ [][Next]_vars /\ WF_vars(DriverStep) /\ WF_vars(Tick)

-----------------------------------------------------------------------------
(* Properties.                                                             *)

\* The variables keep their types, and the driver types no more pieces than
\* there are.
CTypeOK ==
    /\ pc \in {"connect", "look", "relook", "nudge", "reset", "feed", "drain",
               "final", "wait", "reparse", "done"}
    /\ sent \in 0 .. Chunks
    /\ exit \in [how : {"no", "skip", "raised", "code"}, code : 0 .. 255]
    /\ (pc = "done") = (exit # NoExit)
    /\ {buf[i] : i \in DOMAIN buf} \union {con[i] : i \in DOMAIN con} \subseteq 0 .. 12
    /\ \A i \in DOMAIN typed : typed[i].line \in Lines
    /\ \A i \in DOMAIN file : file[i] \in 0 .. Chunks
    /\ qemu \in {"absent", "up", "gone"} /\ guest \in {"boot", "login", "shell"}
    /\ script \in {"no", "missing", "runs", "over"}
    /\ truth \in Codes \union {<<>>, <<1>>}
    /\ talk \in 0 .. Chatter /\ {late, echo, shown} \subseteq BOOLEAN

\* A driver that ends with 0, and whose last line was not echoed, has had the
\* whole script run in the guest, and the script has ended with 0 (main: stty
\* -echo comes first, so a line lost before the shell was up shows in an echo).
PassIsEarned ==
    exit = [how |-> "code", code |-> 0] /\ ~shown =>
        /\ script = "over" /\ truth = <<0>>
        /\ file = [i \in 1 .. Chunks |-> i]

\* The code of a driver that was not misled by the echo of its own line is one
\* the guest printed for that line, cut off where a read ended.
CodeIsAPrefix ==
    exit.how = "code" /\ ~shown =>
        /\ script = "over"
        /\ \E k \in 1 .. Len(truth) : exit.code = Status(SubSeq(truth, 1, k))

\* The driver ends, however the guest and QEMU behave (the deadline in each of
\* its loops).
DriverEnds == <>(pc = "done")
=============================================================================
