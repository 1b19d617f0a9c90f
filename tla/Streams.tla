------------------------------ MODULE Streams ------------------------------
(***************************************************************************)
(* Output streams of the C library: write_buffer, fflush and vfprintf of   *)
(* stdio/buffer.c, fopen, fclose, and puts as user programs get them.      *)
(*                                                                         *)
(* The program is sequential; every system call is a step with any outcome *)
(* the kernel may have: a write may take all, less, or nothing, an open or *)
(* mmap may fail.  The kernel is taken to hand its results back.           *)
(***************************************************************************)
EXTENDS Syscalls, FiniteSets, SequencesExt, FiniteSetsExt

CONSTANTS
    Files,          \* streams for fopen
    Chars, NL,      \* characters
    Strings,        \* what a program prints: sequences of characters
    BUFSIZ,
    PRINTSIZ,       \* size of vfprintf's own buffer
    MaxCalls,       \* bound: calls of fopen and of the functions that print
    MaxPieces       \* bound: conversions in a format

ASSUME StreamsAssumption ==
    /\ BUFSIZ \in Nat \ {0} /\ PRINTSIZ \in Nat /\ PRINTSIZ > 1
    /\ Files \intersect {"stdout", "stderr"} = {}
    /\ NL \in Chars /\ Strings \subseteq Seq(Chars) /\ Strings # {}
    /\ MaxCalls \in Nat /\ MaxPieces \in Nat \ {0}

Streams == Files \union {"stdout", "stderr"}
EIO == 5

VARIABLES
    file,       \* the FILE of each stream, with what its program gave it
    fds,        \* open descriptors
    errno,
    call,       \* the call under way, at the place at
    at,
    calls,
    shorts      \* history: how often the kernel took less than it was asked to

(***************************************************************************)
(* Of a file, given, taken and out are history: the characters accepted    *)
(* since it was opened, how many of them went into a write, and what the   *)
(* kernel took.                                                            *)
(***************************************************************************)
stream_vars == <<file, fds, errno, call, at, calls, shorts>>

FILE(fd, mode, buf_mode) ==
    [fd |-> fd, mode |-> mode, buf_mode |-> buf_mode, buffer |-> <<>>, error |-> FALSE,
     given |-> <<>>, taken |-> 0, out |-> <<>>]
CLOSED == FILE(-1, "closed", "none")

stdio_init ==
    [s \in Streams |-> CASE s = "stdout" -> FILE(1, "w", "line")
                         [] s = "stderr" -> FILE(2, "w", "none")
                         [] OTHER        -> CLOSED]

StreamsInit ==
    /\ file = stdio_init /\ fds = 0 .. 2 /\ errno = 0
    /\ call = [op |-> "none", s |-> "stdout", pieces |-> <<>>, text |-> <<>>] /\ at = "done"
    /\ calls = 0 /\ shorts = 0

-----------------------------------------------------------------------------
(***************************************************************************)
(* vfprintf: a format is a sequence of literal characters and conversions, *)
(* a conversion a sequence of its own.  What it collects in its buffer is  *)
(* written when a conversion begins, when a conversion fills the buffer,   *)
(* and at the end; a literal that does not fit is cut.                     *)
(***************************************************************************)
Cut(p, c)  == IF Len(p.buf) < PRINTSIZ - 1 THEN [p EXCEPT !.buf = Append(@, c)] ELSE p
Sent(p)    == IF p.buf = <<>> THEN p ELSE [out |-> Append(p.out, p.buf), buf |-> <<>>]
Put(p, c)  == LET q == Cut(p, c) IN IF Len(q.buf) >= PRINTSIZ - 1 THEN Sent(q) ELSE q
Conversion(p, item) ==
    LET done[k \in 0 .. Len(item.text)] == IF k = 0 THEN Sent(p) ELSE Put(done[k - 1], item.text[k])
    IN  done[Len(item.text)]
Literal(p, item) ==
    LET done[k \in 0 .. Len(item.text)] == IF k = 0 THEN p ELSE Cut(done[k - 1], item.text[k])
    IN  done[Len(item.text)]
vfprintf(format) ==
    LET done[k \in 0 .. Len(format)] ==
          IF k = 0 THEN [out |-> <<>>, buf |-> <<>>]
          ELSE IF format[k].conv THEN Conversion(done[k - 1], format[k]) ELSE Literal(done[k - 1], format[k])
    IN  Sent(done[Len(format)]).out

Formats == UNION {[1 .. n -> [conv : BOOLEAN, text : Strings]] : n \in 1 .. MaxPieces}

-----------------------------------------------------------------------------
Begin(name, s, pieces, there) ==
    /\ at = "done"
    /\ file[s].mode # "closed" \/ name = "fopen"
    /\ IF name \in {"fflush", "fclose"} THEN UNCHANGED calls
       ELSE calls < MaxCalls /\ calls' = calls + 1
    /\ call' = [op |-> name, s |-> s, pieces |-> pieces, text |-> <<>>]
    /\ at' = there
    /\ UNCHANGED <<file, fds, errno, shorts>>

printf(s) == \E f \in Formats : Begin("vfprintf", s, vfprintf(f), "piece")
puts      == \E t \in Strings : Begin("puts", "stdout", <<t, <<NL>>>>, "piece")

\* The stream of the call.
mine == call.s
this == file[mine]
Step(here) == at = here /\ UNCHANGED calls

Finish == at' = "done" /\ call' = [call EXCEPT !.pieces = <<>>, !.text = <<>>]

\* The result of a system call that failed.
Failed(name, e) == errno' = unistd(name, - e, errno).errno

-----------------------------------------------------------------------------
(***************************************************************************)
(* write_buffer, for every piece in turn until one fails.                  *)
(***************************************************************************)
write_buffer ==
    /\ Step("piece")
    /\ IF call.pieces = <<>> THEN Finish /\ UNCHANGED errno
       ELSE IF this.error THEN Finish /\ errno' = EINVAL
       ELSE /\ call' = [call EXCEPT !.text = Head(call.pieces), !.pieces = Tail(call.pieces)]
            /\ at' = IF this.buf_mode = "none" THEN "direct" ELSE "copy"
            /\ UNCHANGED errno
    /\ UNCHANGED <<file, fds, shorts>>

\* Mutant: looks for the newline in what is copied this time only.
HasNewline_LastOnly(text) == text # <<>> /\ Last(text) = NL
HasNewline(text) == \E i \in DOMAIN text : text[i] = NL

\* Mutant: a buffer that is full without a newline is not flushed.
MustFlush_Lines(f, text) == f.buf_mode = "line" /\ HasNewline(text)
MustFlush(f, text) == Len(f.buffer) = BUFSIZ \/ (f.buf_mode = "line" /\ HasNewline(text))

Copy ==
    /\ Step("copy")
    /\ IF call.text = <<>> THEN at' = "piece" /\ UNCHANGED <<file, call>>
       ELSE LET n    == Min({Len(call.text), BUFSIZ - Len(this.buffer)})
                part == SubSeq(call.text, 1, n)
            IN  /\ file' = [file EXCEPT ![mine].buffer = @ \o part, ![mine].given = @ \o part]
                /\ call' = [call EXCEPT !.text = SubSeq(@, n + 1, Len(@))]
                /\ at' = IF MustFlush(file'[mine], call.text) THEN "flush" ELSE "copy"
    /\ UNCHANGED <<fds, errno, shorts>>

\* Mutant: the buffer is not emptied after it was written.
Emptied_Not(f) == [f EXCEPT !.taken = @ + Len(f.buffer)]
Emptied(f) == [f EXCEPT !.buffer = <<>>, !.taken = @ + Len(f.buffer)]

\* write, of text from the stream's buffer or straight from the program.
Took(text, f, r) ==
    /\ file' = [file EXCEPT ![mine] = [f EXCEPT !.out = @ \o SubSeq(text, 1, r)]]
    /\ shorts' = IF r < Len(text) THEN shorts + 1 ELSE shorts
    /\ UNCHANGED errno
WriteFailed == file' = [file EXCEPT ![mine].error = TRUE] /\ Failed("write", EIO) /\ UNCHANGED shorts

fflush ==
    /\ Step("flush")
    /\ IF this.error THEN Finish /\ errno' = EINVAL /\ UNCHANGED <<file, shorts>>
       ELSE \/ WriteFailed /\ Finish
            \/ /\ \E r \in 0 .. Len(this.buffer) : Took(this.buffer, Emptied(this), r)
               /\ IF call.op = "fflush" THEN Finish ELSE at' = "copy" /\ UNCHANGED call
    /\ UNCHANGED fds

\* Only what the kernel took counts as accepted by a stream without a buffer.
Direct ==
    /\ Step("direct")
    /\ \/ WriteFailed /\ Finish
       \/ /\ \E r \in 0 .. Len(call.text) :
               Took(call.text, [this EXCEPT !.given = @ \o call.text, !.taken = @ + Len(call.text)], r)
          /\ at' = "piece" /\ UNCHANGED call
    /\ UNCHANGED fds

\* A flush that has nothing to do is left out.
FlushCall == \E f \in Streams :
    file[f].buffer # <<>> /\ Begin("fflush", f, <<>>, "flush")

-----------------------------------------------------------------------------
(***************************************************************************)
(* fclose writes what is left of a stream for writing and goes on to close *)
(* unless the write fails; a short write passes for a whole one.  After a  *)
(* failure the stream is still there.                                      *)
(***************************************************************************)
fclose ==
    \E f \in Files :
        Begin("fclose", f, <<>>, IF file[f].mode = "w" /\ file[f].buffer # <<>> THEN "last" ELSE "close")

LastWrite ==
    /\ Step("last")
    /\ \/ WriteFailed /\ Finish
       \/ /\ \E r \in 0 .. Len(this.buffer) : Took(this.buffer, Emptied(this), r)
          /\ at' = "close" /\ UNCHANGED call
    /\ UNCHANGED fds

Close ==
    /\ Step("close") /\ Finish
    /\ fds' = fds \ {this.fd}
    /\ file' = [file EXCEPT ![mine].mode = "closed", ![mine].fd = -1, ![mine].buffer = <<>>, ![mine].error = FALSE]
    /\ UNCHANGED <<errno, shorts>>

(***************************************************************************)
(* fopen: the descriptor, then memory for the stream.  Mode "a" is "w" but *)
(* for what the kernel does with the file.                                 *)
(***************************************************************************)
fopen == \E f \in Files, m \in {"r", "w"} :
    file[f].mode = "closed" /\ Begin("fopen", f, <<m>>, "open")

Open ==
    /\ Step("open")
    /\ \/ Failed("open", EIO) /\ Finish /\ UNCHANGED fds
       \/ /\ at' = "mmap" /\ UNCHANGED <<errno, call>>
          /\ fds' = fds \union {Min((0 .. Cardinality(fds)) \ fds)}
    /\ UNCHANGED <<file, shorts>>

NewFd == CHOOSE fd \in fds : fd > 2 /\ \A f \in Files : file[f].fd # fd

\* Mutant: the descriptor stays open when there is no memory.
Given_Up_Open == fds
Given_Up == fds \ {NewFd}

Mmap ==
    /\ Step("mmap") /\ Finish
    /\ \/ errno' = ENOMEM /\ fds' = Given_Up /\ UNCHANGED file
       \/ file' = [file EXCEPT ![mine] = FILE(NewFd, call.pieces[1], "full")] /\ UNCHANGED <<errno, fds>>
    /\ UNCHANGED shorts

-----------------------------------------------------------------------------
Library == write_buffer \/ Copy \/ fflush \/ Direct \/ LastWrite \/ Close \/ Open \/ Mmap
StreamsNext == (\E f \in Streams : printf(f)) \/ puts \/ FlushCall \/ fclose \/ fopen \/ Library

\* A call that was made is carried on.
StreamsSpec == StreamsInit /\ [][StreamsNext]_stream_vars /\ WF_stream_vars(Library)

-----------------------------------------------------------------------------
(* What arrives is what was given, in order and once; only a short write   *)
(* of the kernel loses anything, and fclose of a stream for writing hands  *)
(* everything over first.                                                  *)
Field(name) == [f \in Streams |-> file[f][name]]
Abstract == INSTANCE Pipe WITH
    mode <- Field("mode"), given <- Field("given"), taken <- Field("taken"), out <- Field("out"), shorts <- shorts
PipeSpec == Abstract!Spec

(* Between calls no line is waiting in a line-buffered stream, unless a    *)
(* write has failed: a prompt or a message is out when its newline is.     *)
LinesAreOut ==
    at = "done" => \A f \in Streams :
        file[f].buf_mode = "line" /\ ~ file[f].error => ~ \E i \in DOMAIN file[f].buffer : file[f].buffer[i] = NL

(* Between calls, also after failed ones, a descriptor is open exactly for *)
(* every stream that is, none is lost and none is shared.                  *)
DescriptorsAreStreams ==
    at = "done" =>
        LET open == {f \in Files : file[f].mode # "closed"}
        IN  fds = (0 .. 2) \union {file[f].fd : f \in open} /\ Cardinality(fds) = 3 + Cardinality(open)

(* Every call returns, whatever the kernel answers. *)
CallsReturn == []<>(at = "done")
=============================================================================
