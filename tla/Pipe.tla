-------------------------------- MODULE Pipe --------------------------------
(***************************************************************************)
(* What a program may expect of its output streams.  What it gives to a    *)
(* stream arrives in order and once.  Something may be lost only when the  *)
(* kernel takes less than it was asked to, and a stream that was opened    *)
(* for writing is not closed before all of it was handed over.             *)
(***************************************************************************)
EXTENDS Integers, Sequences, SequencesExt

VARIABLES
    mode,       \* mode[s]: "r", "w" or "closed"
    given,      \* given[s]: what the stream accepted since it was opened
    taken,      \* taken[s]: how much of it was handed over
    out,        \* out[s]: what the kernel took of that
    shorts      \* how often the kernel took less

vars == <<mode, given, taken, out, shorts>>
Streams == DOMAIN mode

Init ==
    /\ \A s \in Streams : given[s] = <<>> /\ taken[s] = 0 /\ out[s] = <<>>
    /\ shorts = 0

Others(s, f, g) == \A t \in Streams \ {s} : f[t] = g[t]

Open(s) ==
    /\ mode[s] = "closed" /\ mode' = [mode EXCEPT ![s] = mode'[s]] /\ mode'[s] # "closed"
    /\ given' = [given EXCEPT ![s] = <<>>] /\ out' = [out EXCEPT ![s] = <<>>]
    /\ taken' = [taken EXCEPT ![s] = 0]
    /\ UNCHANGED shorts

Close(s) ==
    /\ mode[s] # "closed" /\ mode' = [mode EXCEPT ![s] = "closed"]
    /\ mode[s] = "w" => taken[s] = Len(given[s])
    /\ UNCHANGED <<given, taken, out, shorts>>

\* More is given, and some of what is there handed over.
Transfer(s) ==
    LET n == taken'[s] - taken[s]
    IN  /\ mode[s] # "closed" /\ UNCHANGED mode
        /\ IsPrefix(given[s], given'[s])
        /\ n >= 0 /\ taken'[s] <= Len(given'[s])
        /\ \E k \in 0 .. n :
             /\ out'[s] = out[s] \o SubSeq(given'[s], taken[s] + 1, taken[s] + k)
             /\ shorts' = IF k < n THEN shorts + 1 ELSE shorts
        /\ Others(s, given', given) /\ Others(s, taken', taken) /\ Others(s, out', out)

Next == \E s \in Streams : Open(s) \/ Close(s) \/ Transfer(s)
Spec == Init /\ [][Next]_vars
=============================================================================
