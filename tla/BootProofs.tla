---------------------------- MODULE BootProofs ----------------------------
(***************************************************************************)
(* Proofs about Boot, for every set of modes of the card, every number of  *)
(* buses, any faults of the disk and any use of the video driver.          *)
(*                                                                         *)
(* The state of the machine is a function of where it is: before each      *)
(* instruction of the 16-bit executer's routine it is what the table Here  *)
(* says, and before the ten steps of the program that come before the      *)
(* interrupts are on it is Early.  What comes after them sets none of the  *)
(* processor's tables: a call puts only late steps in front of others.     *)
(*                                                                         *)
(* The screen: the last step of vbe_set_mode, which takes the mode for     *)
(* set, has the function's other four in front of it, or what they found   *)
(* out is Known; and a text cursor that Fits is kept so by every character.*)
(*                                                                         *)
(* Pictures: a row and its padding are the words that the format gives it. *)
(***************************************************************************)
EXTENDS Boot, FiniteSetTheorems, SequenceTheorems, WellFoundedInduction, TLAPS

-----------------------------------------------------------------------------
(* The routine *)

Fields == {"IF", "PE", "PG", "cr3", "gdt", "idt", "code", "data", "stack", "saved", "fault"}

(* The machine before instruction k of the routine; 0 and 25 are outside.  *)
Within(k, first, last) == first <= k /\ k <= last
Here(m, k) ==
  /\ DOMAIN m = Fields /\ m.fault = FALSE
  /\ IF Within(k, 11, 17) THEN m.PE = FALSE ELSE m.PE = TRUE
  /\ IF Within(k, 6, 21) THEN m.PG = FALSE ELSE m.PG = TRUE
  /\ IF Within(k, 7, 20) THEN m.cr3 = "none" ELSE m.cr3 = "kernel"
  /\ m.gdt = "switcher" \/ (m.gdt = "kernel" /\ ~ Within(k, 8, 24))
  /\ IF Within(k, 14, 22) THEN m.idt = "ivt" ELSE m.idt = "kernel"
  /\ IF Within(k, 9, 11) THEN m.code = "16"
     ELSE IF Within(k, 12, 18) THEN m.code = "real" ELSE m.code = "32"
  /\ IF Within(k, 10, 12) THEN m.data = "16"
     ELSE IF Within(k, 13, 19) THEN m.data = "real" ELSE m.data = "32"
  /\ IF Within(k, 4, 24) THEN m.stack = "RM_STACK_TOP" ELSE m.stack = "kernel"
  /\ Within(k, 2, 24) => m.saved = <<"kernel", "kernel", "kernel">>
  /\ Within(k, 5, 14) \/ Within(k, 17, 23) => m.IF = FALSE

LEMMA ExecHere ==
  ASSUME NEW m, NEW k \in 1 .. 24, Here(m, k)
  PROVE  Here(Exec(m, Routine[k]), k + 1)
<1>1. CASE k = 1
  <2>1. Routine[k] = "save"
    BY <1>1 DEF Routine
  <2>2. Exec(m, "save") = [m EXCEPT !.saved = <<m.cr3, m.idt, m.stack>>]
    BY <1>1 DEF Exec, Allowed, Effect, Here, Within
  <2>3. ASSUME NEW n, Here(m, 1), n = [m EXCEPT !.saved = <<m.cr3, m.idt, m.stack>>] PROVE Here(n, 2)
    BY <2>3 DEF Here, Within, Fields
  <2>4. Here(m, 1)
    BY <1>1
  <2>5. Here(Exec(m, Routine[k]), 2)
    BY <2>1, <2>2, <2>3, <2>4
  <2>6. QED
    BY <1>1, <2>5
<1>2. CASE k = 2
  <2>1. Routine[k] = "DATA32"
    BY <1>2 DEF Routine
  <2>2. Exec(m, "DATA32") = [m EXCEPT !.data = "32"]
    BY <1>2 DEF Exec, Allowed, Effect, Here, Within
  <2>3. ASSUME NEW n, Here(m, 2), n = [m EXCEPT !.data = "32"] PROVE Here(n, 3)
    BY <2>3 DEF Here, Within, Fields
  <2>4. Here(m, 2)
    BY <1>2
  <2>5. Here(Exec(m, Routine[k]), 3)
    BY <2>1, <2>2, <2>3, <2>4
  <2>6. QED
    BY <1>2, <2>5
<1>3. CASE k = 3
  <2>1. Routine[k] = "own stack"
    BY <1>3 DEF Routine
  <2>2. Exec(m, "own stack") = [m EXCEPT !.stack = "RM_STACK_TOP"]
    BY <1>3 DEF Exec, Allowed, Effect, Here, Within
  <2>3. ASSUME NEW n, Here(m, 3), n = [m EXCEPT !.stack = "RM_STACK_TOP"] PROVE Here(n, 4)
    BY <2>3 DEF Here, Within, Fields
  <2>4. Here(m, 3)
    BY <1>3
  <2>5. Here(Exec(m, Routine[k]), 4)
    BY <2>1, <2>2, <2>3, <2>4
  <2>6. QED
    BY <1>3, <2>5
<1>4. CASE k = 4
  <2>1. Routine[k] = "cli"
    BY <1>4 DEF Routine
  <2>2. Exec(m, "cli") = [m EXCEPT !.IF = FALSE]
    BY <1>4 DEF Exec, Allowed, Effect, Here, Within
  <2>3. ASSUME NEW n, Here(m, 4), n = [m EXCEPT !.IF = FALSE] PROVE Here(n, 5)
    BY <2>3 DEF Here, Within, Fields
  <2>4. Here(m, 4)
    BY <1>4
  <2>5. Here(Exec(m, Routine[k]), 5)
    BY <2>1, <2>2, <2>3, <2>4
  <2>6. QED
    BY <1>4, <2>5
<1>5. CASE k = 5
  <2>1. Routine[k] = "clear PG"
    BY <1>5 DEF Routine
  <2>2. Exec(m, "clear PG") = [m EXCEPT !.PG = FALSE]
    BY <1>5 DEF Exec, Allowed, Effect, Here, Within
  <2>3. ASSUME NEW n, Here(m, 5), n = [m EXCEPT !.PG = FALSE] PROVE Here(n, 6)
    BY <2>3 DEF Here, Within, Fields
  <2>4. Here(m, 5)
    BY <1>5
  <2>5. Here(Exec(m, Routine[k]), 6)
    BY <2>1, <2>2, <2>3, <2>4
  <2>6. QED
    BY <1>5, <2>5
<1>6. CASE k = 6
  <2>1. Routine[k] = "clear cr3"
    BY <1>6 DEF Routine
  <2>2. Exec(m, "clear cr3") = [m EXCEPT !.cr3 = "none"]
    BY <1>6 DEF Exec, Allowed, Effect, Here, Within
  <2>3. ASSUME NEW n, Here(m, 6), n = [m EXCEPT !.cr3 = "none"] PROVE Here(n, 7)
    BY <2>3 DEF Here, Within, Fields
  <2>4. Here(m, 6)
    BY <1>6
  <2>5. Here(Exec(m, Routine[k]), 7)
    BY <2>1, <2>2, <2>3, <2>4
  <2>6. QED
    BY <1>6, <2>5
<1>7. CASE k = 7
  <2>1. Routine[k] = "lgdt"
    BY <1>7 DEF Routine
  <2>2. Exec(m, "lgdt") = [m EXCEPT !.gdt = "switcher"]
    BY <1>7 DEF Exec, Allowed, Effect, Here, Within
  <2>3. ASSUME NEW n, Here(m, 7), n = [m EXCEPT !.gdt = "switcher"] PROVE Here(n, 8)
    BY <2>3 DEF Here, Within, Fields
  <2>4. Here(m, 7)
    BY <1>7
  <2>5. Here(Exec(m, Routine[k]), 8)
    BY <2>1, <2>2, <2>3, <2>4
  <2>6. QED
    BY <1>7, <2>5
<1>8. CASE k = 8
  <2>1. Routine[k] = "jmp CODE16"
    BY <1>8 DEF Routine
  <2>2. Exec(m, "jmp CODE16") = [m EXCEPT !.code = "16"]
    BY <1>8 DEF Exec, Allowed, Effect, Here, Within
  <2>3. ASSUME NEW n, Here(m, 8), n = [m EXCEPT !.code = "16"] PROVE Here(n, 9)
    BY <2>3 DEF Here, Within, Fields
  <2>4. Here(m, 8)
    BY <1>8
  <2>5. Here(Exec(m, Routine[k]), 9)
    BY <2>1, <2>2, <2>3, <2>4
  <2>6. QED
    BY <1>8, <2>5
<1>9. CASE k = 9
  <2>1. Routine[k] = "DATA16"
    BY <1>9 DEF Routine
  <2>2. Exec(m, "DATA16") = [m EXCEPT !.data = "16"]
    BY <1>9 DEF Exec, Allowed, Effect, Here, Within
  <2>3. ASSUME NEW n, Here(m, 9), n = [m EXCEPT !.data = "16"] PROVE Here(n, 10)
    BY <2>3 DEF Here, Within, Fields
  <2>4. Here(m, 9)
    BY <1>9
  <2>5. Here(Exec(m, Routine[k]), 10)
    BY <2>1, <2>2, <2>3, <2>4
  <2>6. QED
    BY <1>9, <2>5
<1>10. CASE k = 10
  <2>1. Routine[k] = "clear PE"
    BY <1>10 DEF Routine
  <2>2. Exec(m, "clear PE") = [m EXCEPT !.PE = FALSE]
    BY <1>10 DEF Exec, Allowed, Effect, Here, Within
  <2>3. ASSUME NEW n, Here(m, 10), n = [m EXCEPT !.PE = FALSE] PROVE Here(n, 11)
    BY <2>3 DEF Here, Within, Fields
  <2>4. Here(m, 10)
    BY <1>10
  <2>5. Here(Exec(m, Routine[k]), 11)
    BY <2>1, <2>2, <2>3, <2>4
  <2>6. QED
    BY <1>10, <2>5
<1>11. CASE k = 11
  <2>1. Routine[k] = "jmp real"
    BY <1>11 DEF Routine
  <2>2. Exec(m, "jmp real") = [m EXCEPT !.code = "real"]
    BY <1>11 DEF Exec, Allowed, Effect, Here, Within
  <2>3. ASSUME NEW n, Here(m, 11), n = [m EXCEPT !.code = "real"] PROVE Here(n, 12)
    BY <2>3 DEF Here, Within, Fields
  <2>4. Here(m, 11)
    BY <1>11
  <2>5. Here(Exec(m, Routine[k]), 12)
    BY <2>1, <2>2, <2>3, <2>4
  <2>6. QED
    BY <1>11, <2>5
<1>12. CASE k = 12
  <2>1. Routine[k] = "zero segments"
    BY <1>12 DEF Routine
  <2>2. Exec(m, "zero segments") = [m EXCEPT !.data = "real"]
    BY <1>12 DEF Exec, Allowed, Effect, Here, Within
  <2>3. ASSUME NEW n, Here(m, 12), n = [m EXCEPT !.data = "real"] PROVE Here(n, 13)
    BY <2>3 DEF Here, Within, Fields
  <2>4. Here(m, 12)
    BY <1>12
  <2>5. Here(Exec(m, Routine[k]), 13)
    BY <2>1, <2>2, <2>3, <2>4
  <2>6. QED
    BY <1>12, <2>5
<1>13. CASE k = 13
  <2>1. Routine[k] = "lidt ivt"
    BY <1>13 DEF Routine
  <2>2. Exec(m, "lidt ivt") = [m EXCEPT !.idt = "ivt"]
    BY <1>13 DEF Exec, Allowed, Effect, Here, Within
  <2>3. ASSUME NEW n, Here(m, 13), n = [m EXCEPT !.idt = "ivt"] PROVE Here(n, 14)
    BY <2>3 DEF Here, Within, Fields
  <2>4. Here(m, 13)
    BY <1>13
  <2>5. Here(Exec(m, Routine[k]), 14)
    BY <2>1, <2>2, <2>3, <2>4
  <2>6. QED
    BY <1>13, <2>5
<1>14. CASE k = 14
  <2>1. Routine[k] = "sti"
    BY <1>14 DEF Routine
  <2>2. Exec(m, "sti") = [m EXCEPT !.IF = TRUE]
    BY <1>14 DEF Exec, Allowed, Effect, Here, Within
  <2>3. ASSUME NEW n, Here(m, 14), n = [m EXCEPT !.IF = TRUE] PROVE Here(n, 15)
    BY <2>3 DEF Here, Within, Fields
  <2>4. Here(m, 14)
    BY <1>14
  <2>5. Here(Exec(m, Routine[k]), 15)
    BY <2>1, <2>2, <2>3, <2>4
  <2>6. QED
    BY <1>14, <2>5
<1>15. CASE k = 15
  <2>1. Routine[k] = "call"
    BY <1>15 DEF Routine
  <2>2. Exec(m, "call") = m
    BY <1>15 DEF Exec, Allowed, Effect, Here, Within
  <2>3. ASSUME NEW n, Here(m, 15), n = m PROVE Here(n, 16)
    BY <2>3 DEF Here, Within, Fields
  <2>4. Here(m, 15)
    BY <1>15
  <2>5. Here(Exec(m, Routine[k]), 16)
    BY <2>1, <2>2, <2>3, <2>4
  <2>6. QED
    BY <1>15, <2>5
<1>16. CASE k = 16
  <2>1. Routine[k] = "cli"
    BY <1>16 DEF Routine
  <2>2. Exec(m, "cli") = [m EXCEPT !.IF = FALSE]
    BY <1>16 DEF Exec, Allowed, Effect, Here, Within
  <2>3. ASSUME NEW n, Here(m, 16), n = [m EXCEPT !.IF = FALSE] PROVE Here(n, 17)
    BY <2>3 DEF Here, Within, Fields
  <2>4. Here(m, 16)
    BY <1>16
  <2>5. Here(Exec(m, Routine[k]), 17)
    BY <2>1, <2>2, <2>3, <2>4
  <2>6. QED
    BY <1>16, <2>5
<1>17. CASE k = 17
  <2>1. Routine[k] = "set PE"
    BY <1>17 DEF Routine
  <2>2. Exec(m, "set PE") = [m EXCEPT !.PE = TRUE]
    BY <1>17 DEF Exec, Allowed, Effect, Here, Within
  <2>3. ASSUME NEW n, Here(m, 17), n = [m EXCEPT !.PE = TRUE] PROVE Here(n, 18)
    BY <2>3 DEF Here, Within, Fields
  <2>4. Here(m, 17)
    BY <1>17
  <2>5. Here(Exec(m, Routine[k]), 18)
    BY <2>1, <2>2, <2>3, <2>4
  <2>6. QED
    BY <1>17, <2>5
<1>18. CASE k = 18
  <2>1. Routine[k] = "jmp CODE32"
    BY <1>18 DEF Routine
  <2>2. Exec(m, "jmp CODE32") = [m EXCEPT !.code = "32"]
    BY <1>18 DEF Exec, Allowed, Effect, Here, Within
  <2>3. ASSUME NEW n, Here(m, 18), n = [m EXCEPT !.code = "32"] PROVE Here(n, 19)
    BY <2>3 DEF Here, Within, Fields
  <2>4. Here(m, 18)
    BY <1>18
  <2>5. Here(Exec(m, Routine[k]), 19)
    BY <2>1, <2>2, <2>3, <2>4
  <2>6. QED
    BY <1>18, <2>5
<1>19. CASE k = 19
  <2>1. Routine[k] = "DATA32"
    BY <1>19 DEF Routine
  <2>2. Exec(m, "DATA32") = [m EXCEPT !.data = "32"]
    BY <1>19 DEF Exec, Allowed, Effect, Here, Within
  <2>3. ASSUME NEW n, Here(m, 19), n = [m EXCEPT !.data = "32"] PROVE Here(n, 20)
    BY <2>3 DEF Here, Within, Fields
  <2>4. Here(m, 19)
    BY <1>19
  <2>5. Here(Exec(m, Routine[k]), 20)
    BY <2>1, <2>2, <2>3, <2>4
  <2>6. QED
    BY <1>19, <2>5
<1>20. CASE k = 20
  <2>1. Routine[k] = "cr3"
    BY <1>20 DEF Routine
  <2>2. Exec(m, "cr3") = [m EXCEPT !.cr3 = m.saved[1]]
    BY <1>20 DEF Exec, Allowed, Effect, Here, Within
  <2>3. ASSUME NEW n, Here(m, 20), n = [m EXCEPT !.cr3 = m.saved[1]] PROVE Here(n, 21)
    BY <2>3 DEF Here, Within, Fields
  <2>4. Here(m, 20)
    BY <1>20
  <2>5. Here(Exec(m, Routine[k]), 21)
    BY <2>1, <2>2, <2>3, <2>4
  <2>6. QED
    BY <1>20, <2>5
<1>21. CASE k = 21
  <2>1. Routine[k] = "set PG"
    BY <1>21 DEF Routine
  <2>2. Exec(m, "set PG") = [m EXCEPT !.PG = TRUE]
    BY <1>21 DEF Exec, Allowed, Effect, Here, Within
  <2>3. ASSUME NEW n, Here(m, 21), n = [m EXCEPT !.PG = TRUE] PROVE Here(n, 22)
    BY <2>3 DEF Here, Within, Fields
  <2>4. Here(m, 21)
    BY <1>21
  <2>5. Here(Exec(m, Routine[k]), 22)
    BY <2>1, <2>2, <2>3, <2>4
  <2>6. QED
    BY <1>21, <2>5
<1>22. CASE k = 22
  <2>1. Routine[k] = "lidt saved"
    BY <1>22 DEF Routine
  <2>2. Exec(m, "lidt saved") = [m EXCEPT !.idt = m.saved[2]]
    BY <1>22 DEF Exec, Allowed, Effect, Here, Within
  <2>3. ASSUME NEW n, Here(m, 22), n = [m EXCEPT !.idt = m.saved[2]] PROVE Here(n, 23)
    BY <2>3 DEF Here, Within, Fields
  <2>4. Here(m, 22)
    BY <1>22
  <2>5. Here(Exec(m, Routine[k]), 23)
    BY <2>1, <2>2, <2>3, <2>4
  <2>6. QED
    BY <1>22, <2>5
<1>23. CASE k = 23
  <2>1. Routine[k] = "sti"
    BY <1>23 DEF Routine
  <2>2. Exec(m, "sti") = [m EXCEPT !.IF = TRUE]
    BY <1>23 DEF Exec, Allowed, Effect, Here, Within
  <2>3. ASSUME NEW n, Here(m, 23), n = [m EXCEPT !.IF = TRUE] PROVE Here(n, 24)
    BY <2>3 DEF Here, Within, Fields
  <2>4. Here(m, 23)
    BY <1>23
  <2>5. Here(Exec(m, Routine[k]), 24)
    BY <2>1, <2>2, <2>3, <2>4
  <2>6. QED
    BY <1>23, <2>5
<1>24. CASE k = 24
  <2>1. Routine[k] = "saved stack"
    BY <1>24 DEF Routine
  <2>2. Exec(m, "saved stack") = [m EXCEPT !.stack = m.saved[3]]
    BY <1>24 DEF Exec, Allowed, Effect, Here, Within
  <2>3. ASSUME NEW n, Here(m, 24), n = [m EXCEPT !.stack = m.saved[3]] PROVE Here(n, 25)
    BY <2>3 DEF Here, Within, Fields
  <2>4. Here(m, 24)
    BY <1>24
  <2>5. Here(Exec(m, Routine[k]), 25)
    BY <2>1, <2>2, <2>3, <2>4
  <2>6. QED
    BY <1>24, <2>5
<1>25. QED
  BY <1>1, <1>2, <1>3, <1>4, <1>5, <1>6, <1>7, <1>8, <1>9, <1>10, <1>11, <1>12, <1>13, <1>14, <1>15, <1>16, <1>17, <1>18, <1>19, <1>20, <1>21, <1>22, <1>23, <1>24

-----------------------------------------------------------------------------
(* The program *)

LateOps ==
    Elsewhere \cup Functions
    \cup {"if 004F", "framebuffer", "command", "clear", "wait", "pci_find_device", "ide_init", "test_filesystem",
          "draw_background", "halt", "lost"}
Args == Modes \cup {"", "mbr", "boot", "root", "usr", "lib", "unreadable"}
LateSteps == [op : LateOps, arg : Args]

LEMMA DoIsLate ==
  ASSUME NEW op \in LateOps, NEW arg \in Args
  PROVE  Do(op, arg) \in LateSteps
BY DEF Do, LateSteps

LEMMA Tuples ==
  ASSUME NEW S, NEW a \in S, NEW b \in S, NEW c \in S, NEW d \in S, NEW e \in S
  PROVE  /\ <<a>> \in Seq(S) /\ <<a, b>> \in Seq(S) /\ <<a, b, c>> \in Seq(S) /\ <<a, b, c, d>> \in Seq(S)
         /\ <<a, b, c, d, e>> \in Seq(S)
OBVIOUS

LEMMA StepsAreLate ==
  ASSUME NEW names \in Seq(LateOps)
  PROVE  Steps(names) \in Seq(LateSteps)
<1>1. "" \in Args
  BY DEF Args
<1>2. PICK n \in Nat : DOMAIN names = 1 .. n /\ names \in [1 .. n -> LateOps]
  BY LenProperties
<1>3. Steps(names) \in [1 .. n -> LateSteps]
  BY <1>1, <1>2, DoIsLate DEF Steps
<1>4. QED
  BY <1>3, SeqDef

LEMMA Joined ==
  ASSUME NEW S, NEW a \in Seq(S), NEW b \in Seq(S)
  PROVE  a \o b \in Seq(S)
BY ConcatProperties

LEMMA ReturnedIsLate == Returned \in Seq(LateSteps)
<1>1. "return" \in LateOps /\ "" \in Args
  BY DEF LateOps, Elsewhere, Args
<1>2. Do("return", "") \in LateSteps
  BY <1>1, DoIsLate
<1>3. QED
  BY <1>2, Tuples DEF Returned

LEMMA ReadIsLate ==
  ASSUME NEW place \in {"mbr", "boot", "root", "usr", "lib", "unreadable"}
  PROVE  read_sectors(place) \in Seq(LateSteps)
<1>1. {"command", "clear", "wait"} \subseteq LateOps /\ place \in Args
  BY DEF LateOps, Args
<1>2. QED
  BY <1>1, DoIsLate DEF read_sectors

LEMMA FsInitIsLate == fs_init \in Seq(LateSteps)
BY ReadIsLate, ReturnedIsLate, Joined DEF fs_init

LEMMA SetModeIsLate ==
  ASSUME NEW m \in Modes
  PROVE  vbe_set_mode(m) \in Seq(LateSteps)
<1>1. /\ "4F02" \in LateOps /\ "if 004F" \in LateOps /\ "4F01" \in LateOps /\ "framebuffer" \in LateOps
      /\ m \in Args /\ "" \in Args
  BY DEF LateOps, Functions, Args
<1> DEFINE a == Do("4F02", m)
           b == Success
           c == Do("4F01", m)
           d == Do("framebuffer", "")
<1>a. a \in LateSteps /\ b \in LateSteps /\ c \in LateSteps /\ d \in LateSteps
  BY <1>1, DoIsLate DEF Success
<1>2. <<a, b, c, b, d>> \in Seq(LateSteps)
  BY <1>a, Tuples
<1>3. QED
  BY <1>2, ReturnedIsLate, Joined DEF vbe_set_mode

LEMMA SetMode2IsLate == vbe_set_mode2 \in Seq(LateSteps)
<1>1. /\ "4F02" \in LateOps /\ "if 004F" \in LateOps /\ "4F01 0xA000" \in LateOps
      /\ target_mode \in Args /\ "" \in Args
  BY BootAssumption DEF LateOps, Functions, Args
<1> DEFINE a == Do("4F01 0xA000", target_mode)
           b == Do("4F02", target_mode)
           c == Success
<1>a. a \in LateSteps /\ b \in LateSteps /\ c \in LateSteps
  BY <1>1, DoIsLate DEF Success
<1>2. <<a, b, c, a>> \in Seq(LateSteps)
  BY <1>a, Tuples
<1>3. QED
  BY <1>2, ReturnedIsLate, Joined DEF vbe_set_mode2

LEMMA ModeInfoIsLate ==
  ASSUME NEW m \in Modes
  PROVE  vbe_get_mode_info(m) \in Seq(LateSteps)
<1>1. "4F01 0xA000" \in LateOps /\ m \in Args
  BY DEF LateOps, Functions, Args
<1>2. Do("4F01 0xA000", m) \in LateSteps
  BY <1>1, DoIsLate
<1>3. QED
  BY <1>2, Tuples DEF vbe_get_mode_info

LEMMA TextModeIsLate == vbe_set_text_mode \in Seq(LateSteps)
<1>1. "0003" \in LateOps /\ "0F03" \in LateOps /\ "" \in Args
  BY DEF LateOps, Functions, Args
<1>2. Do("0003", "") \in LateSteps /\ Do("0F03", "") \in LateSteps
  BY <1>1, DoIsLate
<1>3. QED
  BY <1>2, Tuples DEF vbe_set_text_mode

LEMMA ListIsLate == vbe_list_supported_modes \in Seq(LateSteps)
<1>1. "4F00" \in LateOps /\ "if 004F" \in LateOps /\ "4F01" \in LateOps /\ "" \in Args /\ Modes \subseteq Args
  BY DEF LateOps, Functions, Args
<1> DEFINE list == SetToSeq(Modes)
           n == Cardinality(Modes)
<1>2. n \in Nat /\ ExistsBijection(1 .. n, Modes)
  BY BootAssumption, FS_CardinalityType
<1>3. PICK f \in [1 .. n -> Modes] : \A a, b \in 1 .. n : f[a] = f[b] => a = b
  BY <1>2 DEF ExistsBijection, Bijection, Injection, IsInjective
<1>4. IsInjective(f)
  BY <1>3 DEF IsInjective
<1>5. list \in [1 .. n -> Modes]
  BY <1>4 DEF SetToSeq
<1>6. [i \in DOMAIN list |-> Do("4F01", list[i])] \in [1 .. n -> LateSteps]
  BY <1>1, <1>5, DoIsLate
<1>7. [i \in DOMAIN list |-> Do("4F01", list[i])] \in Seq(LateSteps)
  BY <1>2, <1>6, SeqDef
<1>8. Do("4F00", "") \in LateSteps /\ Success \in LateSteps
  BY <1>1, DoIsLate DEF Success
<1>9. <<Do("4F00", ""), Success>> \in Seq(LateSteps)
  BY <1>8, Tuples
<1>10. QED
  BY <1>7, <1>9, TextModeIsLate, ReturnedIsLate, Joined DEF vbe_list_supported_modes

LEMMA DriversAreLate == init_drivers \in Seq(LateSteps)
<1>1. /\ "serial_init" \in LateOps /\ "timer_init" \in LateOps /\ "pci_find_device" \in LateOps
      /\ "ide_init" \in LateOps /\ "keyboard_init" \in LateOps /\ "4F00" \in LateOps /\ "" \in Args
  BY DEF LateOps, Elsewhere, Functions, Args
<1>2. <<"serial_init", "timer_init", "pci_find_device", "ide_init", "keyboard_init">> \in Seq(LateOps)
  BY <1>1, Tuples
<1>a. Do("4F00", "") \in LateSteps
  BY <1>1, DoIsLate
<1>3. vbe_init \in Seq(LateSteps)
  BY <1>a, Tuples DEF vbe_init
<1>4. QED
  BY <1>2, <1>3, StepsAreLate, Joined DEF init_drivers

(* What comes before: the ten steps that the machine takes with interrupts *)
(* off, and then only late ones.                                           *)
Start == <<"set PG", "init_paging_stage1", "init_gdt", "vga_clear", "logger_init", "init_paging_stage2",
           "init_heap", "enable_fpu", "load_multiboot_mods", "idt_init">>
StartOps == {"set PG", "init_paging_stage1", "init_gdt", "vga_clear", "logger_init", "init_paging_stage2",
             "init_heap", "enable_fpu", "load_multiboot_mods", "idt_init"}
AllSteps == [op : LateOps \cup StartOps, arg : Args]

Begins(s, first, n) ==
    /\ s \in Seq(AllSteps) /\ Len(s) >= n
    /\ \A i \in 1 .. n : s[i].op = first[i]
    /\ \A i \in n + 1 .. Len(s) : s[i] \in LateSteps

LEMMA LateIsAny == LateSteps \subseteq AllSteps
BY DEF LateSteps, AllSteps

LEMMA BeginsIsKept ==
  ASSUME NEW first, NEW n \in Nat, NEW s, Begins(s, first, n), NEW more \in Seq(LateSteps)
  PROVE  Begins(s \o more, first, n)
<1>1. s \in Seq(AllSteps) /\ more \in Seq(AllSteps)
  BY LateIsAny, SeqMonotonic DEF Begins
<1>2. /\ s \o more \in Seq(AllSteps) /\ Len(s \o more) = Len(s) + Len(more)
      /\ \A i \in 1 .. Len(s) + Len(more) : (s \o more)[i] = IF i <= Len(s) THEN s[i] ELSE more[i - Len(s)]
  BY <1>1, ConcatProperties
<1>3. Len(s) \in Nat /\ Len(more) \in Nat /\ Len(s) >= n
  BY <1>1, LenProperties DEF Begins
<1>4. \A i \in 1 .. n : (s \o more)[i].op = first[i]
  BY <1>2, <1>3 DEF Begins
<1>5. ASSUME NEW i \in n + 1 .. Len(s \o more)
      PROVE  (s \o more)[i] \in LateSteps
  <2>1. CASE i <= Len(s)
    BY <2>1, <1>2, <1>3 DEF Begins
  <2>2. CASE i > Len(s)
    <3>1. i - Len(s) \in 1 .. Len(more)
      BY <2>2, <1>2, <1>3
    <3>2. QED
      BY <2>2, <3>1, <1>2, <1>3, ElementOfSeq
  <2>3. QED
    BY <2>1, <2>2, <1>3
<1>6. QED
  BY <1>2, <1>3, <1>4, <1>5 DEF Begins

LEMMA FirstSteps ==
  ASSUME NEW names \in Seq(StartOps)
  PROVE  /\ Steps(names) \in Seq(AllSteps) /\ Len(Steps(names)) = Len(names)
         /\ \A i \in 1 .. Len(names) : Steps(names)[i].op = names[i]
<1>1. PICK n \in Nat : n = Len(names) /\ DOMAIN names = 1 .. n /\ names \in [1 .. n -> StartOps]
  BY LenProperties
<1>2. "" \in Args
  BY DEF Args
<1>3. \A op \in StartOps : Do(op, "") \in AllSteps /\ Do(op, "").op = op
  BY <1>2 DEF Do, AllSteps
<1>4. Steps(names) \in [1 .. n -> AllSteps] /\ \A i \in 1 .. n : Steps(names)[i].op = names[i]
  BY <1>1, <1>3 DEF Steps
<1>5. Steps(names) \in Seq(AllSteps)
  BY <1>4, SeqDef
<1>6. DOMAIN Steps(names) = 1 .. n
  BY <1>4
<1>7. QED
  BY <1>1, <1>4, <1>5, <1>6, LenProperties

Kernel == <<"vga_clear", "logger_init", "init_paging_stage2", "init_heap", "enable_fpu",
            "load_multiboot_mods", "idt_init">>
Loader == <<"set PG", "init_paging_stage1", "init_gdt">>

LEMMA KernelBegins == Begins(kernel_init, Kernel, 7)
<1>1. Kernel \in Seq(StartOps) /\ Len(Kernel) = 7
  BY DEF Kernel, StartOps
<1> DEFINE first == Steps(Kernel)
<1>a. first \in Seq(AllSteps) /\ Len(first) = 7 /\ \A i \in 1 .. 7 : first[i].op = Kernel[i]
  BY <1>1, FirstSteps
<1>2. Begins(first, Kernel, 7)
  <2> HIDE DEF first
  <2>1. QED
    BY <1>a DEF Begins
<1>3. {"vfs_init", "init_process", "test_filesystem", "draw_background"} \subseteq LateOps
  BY DEF LateOps, Elsewhere
<1>4. /\ <<"vfs_init">> \in Seq(LateOps) /\ <<"init_process", "test_filesystem">> \in Seq(LateOps)
      /\ <<"draw_background">> \in Seq(LateOps)
  BY <1>3
<1>5. vbe_set_mode(BootMode) \in Seq(LateSteps)
  BY SetModeIsLate, BootAssumption
<1> DEFINE a == Steps(Kernel) \o init_drivers
           b == a \o Steps(<<"vfs_init">>)
           c == b \o fs_init
           d == c \o Steps(<<"init_process", "test_filesystem">>)
           e == d \o vbe_set_mode(BootMode)
<1>6. Begins(a, Kernel, 7)
  BY <1>2, DriversAreLate, BeginsIsKept
<1>7. Begins(b, Kernel, 7)
  <2> HIDE DEF a
  <2>1. QED
    BY <1>4, <1>6, StepsAreLate, BeginsIsKept
<1>8. Begins(c, Kernel, 7)
  <2> HIDE DEF b
  <2>1. QED
    BY <1>7, FsInitIsLate, BeginsIsKept
<1>9. Begins(d, Kernel, 7)
  <2> HIDE DEF c
  <2>1. QED
    BY <1>4, <1>8, StepsAreLate, BeginsIsKept
<1>10. Begins(e, Kernel, 7)
  <2> HIDE DEF d
  <2>1. QED
    BY <1>5, <1>9, BeginsIsKept
<1>11. Begins(e \o Steps(<<"draw_background">>), Kernel, 7)
  <2> HIDE DEF e
  <2>1. QED
    BY <1>4, <1>10, StepsAreLate, BeginsIsKept
<1>12. kernel_init = e \o Steps(<<"draw_background">>)
  BY DEF kernel_init, Kernel
<1>13. QED
  BY <1>11, <1>12

LEMMA StartBegins == Begins(_start, Start, 10)
<1>1. Loader \in Seq(StartOps) /\ Len(Loader) = 3
  BY DEF Loader, StartOps
<1>2. /\ Steps(Loader) \in Seq(AllSteps) /\ Len(Steps(Loader)) = 3
      /\ \A i \in 1 .. 3 : Steps(Loader)[i].op = Loader[i]
  BY <1>1, FirstSteps
<1>3. kernel_init \in Seq(AllSteps) /\ Len(kernel_init) \in Nat /\ Len(kernel_init) >= 7
  BY KernelBegins, LenProperties DEF Begins
<1> DEFINE l == Steps(Loader)
           s == l \o kernel_init
<1>a. l \in Seq(AllSteps) /\ Len(l) = 3
  BY <1>2
<1>4. /\ s \in Seq(AllSteps) /\ Len(s) = 3 + Len(kernel_init)
      /\ \A i \in 1 .. 3 + Len(kernel_init) : s[i] = IF i <= 3 THEN l[i] ELSE kernel_init[i - 3]
  <2> HIDE DEF l
  <2>1. /\ l \o kernel_init \in Seq(AllSteps) /\ Len(l \o kernel_init) = Len(l) + Len(kernel_init)
        /\ \A i \in 1 .. Len(l) + Len(kernel_init) :
             (l \o kernel_init)[i] = IF i <= Len(l) THEN l[i] ELSE kernel_init[i - Len(l)]
    BY <1>a, <1>3, ConcatProperties
  <2> HIDE DEF s
  <2>2. s = l \o kernel_init
    BY DEF s
  <2>3. QED
    BY <1>a, <2>1, <2>2
<1> HIDE DEF s
<1>5. \A i \in 1 .. 3 : s[i].op = Loader[i]
  BY <1>2, <1>3, <1>4
<1>6. \A i \in 4 .. 10 : s[i].op = Kernel[i - 3]
  <2>1. TAKE i \in 4 .. 10
  <2>2. i - 3 \in 1 .. 7 /\ s[i] = kernel_init[i - 3]
    BY <1>3, <1>4
  <2>3. QED
    BY <2>2, KernelBegins DEF Begins
<1>7. \A i \in 1 .. 3 : Start[i] = Loader[i]
  <2>1. Start[1] = Loader[1] /\ Start[2] = Loader[2] /\ Start[3] = Loader[3]
    BY DEF Start, Loader
  <2>2. QED
    BY <2>1
<1>b. \A i \in 4 .. 10 : Start[i] = Kernel[i - 3]
  <2>1. Start[4] = Kernel[1] /\ Start[5] = Kernel[2] /\ Start[6] = Kernel[3] /\ Start[7] = Kernel[4]
    BY DEF Start, Kernel
  <2>2. Start[8] = Kernel[5] /\ Start[9] = Kernel[6] /\ Start[10] = Kernel[7]
    BY DEF Start, Kernel
  <2>3. QED
    BY <2>1, <2>2
<1>8. \A i \in 1 .. 10 : s[i].op = Start[i]
  <2>1. TAKE i \in 1 .. 10
  <2>2. CASE i <= 3
    <3>1. i \in 1 .. 3
      BY <2>2
    <3>2. QED
      BY <2>2, <3>1, <1>5, <1>7
  <2>3. CASE i > 3
    <3>1. i \in 4 .. 10
      BY <2>3
    <3>2. QED
      BY <2>3, <3>1, <1>6, <1>b
  <2>4. QED
    BY <2>2, <2>3
<1>9. \A i \in 11 .. Len(s) : s[i] \in LateSteps
  <2>1. TAKE i \in 11 .. Len(s)
  <2>2. i - 3 \in 8 .. Len(kernel_init) /\ s[i] = kernel_init[i - 3]
    BY <1>3, <1>4
  <2>3. QED
    BY <2>2, KernelBegins DEF Begins
<1>10. Begins(s, Start, 10)
  BY <1>3, <1>4, <1>8, <1>9 DEF Begins
<1>11. "halt" \in LateOps
  BY DEF LateOps
<1>12. Steps(<<"halt">>) \in Seq(LateSteps)
  <2>1. <<"halt">> \in Seq(LateOps)
    BY <1>11, Tuples
  <2>2. QED
    BY <2>1, StepsAreLate
<1>13. _start = s \o Steps(<<"halt">>)
  BY DEF _start, s, Loader
<1>14. QED
  BY <1>10, <1>12, <1>13, BeginsIsKept

LEMMA StartAt ==
  ASSUME NEW k \in 1 .. 10
  PROVE  /\ Start[k] \in StartOps
         /\ Start[k] = "set PG" => k = 1
         /\ Start[k] = "init_gdt" => k = 3
         /\ Start[k] = "idt_init" => k = 10
         /\ Start[k] \in Elsewhere \cup {"load_multiboot_mods"} => k \notin {1, 3, 10}
<1>1. Start[1] = "set PG" /\ Start[2] = "init_paging_stage1" /\ Start[3] = "init_gdt" /\ Start[4] = "vga_clear"
  BY DEF Start
<1>2. Start[5] = "logger_init" /\ Start[6] = "init_paging_stage2" /\ Start[7] = "init_heap"
  BY DEF Start
<1>3. Start[8] = "enable_fpu" /\ Start[9] = "load_multiboot_mods" /\ Start[10] = "idt_init"
  BY DEF Start
<1>4. k = 1 \/ k = 2 \/ k = 3 \/ k = 4 \/ k = 5 \/ k = 6 \/ k = 7 \/ k = 8 \/ k = 9 \/ k = 10
  OBVIOUS
<1>5. Start[k] \in StartOps
  BY <1>1, <1>2, <1>3, <1>4 DEF StartOps
<1>6. (Start[k] = "set PG" => k = 1) /\ (Start[k] = "init_gdt" => k = 3) /\ (Start[k] = "idt_init" => k = 10)
  BY <1>1, <1>2, <1>3, <1>4
<1>7. Start[k] \in Elsewhere \cup {"load_multiboot_mods"} => k \notin {1, 3, 10}
  BY <1>1, <1>3, <1>4 DEF Elsewhere
<1>8. QED
  BY <1>5, <1>6, <1>7

-----------------------------------------------------------------------------
(* The invariant *)

(* The processor before step k of the start.                               *)
Early(m, k) ==
  /\ DOMAIN m = Fields /\ m.fault = FALSE /\ m.IF = FALSE
  /\ m.PE = TRUE /\ m.code = "32" /\ m.data = "32"
  /\ k > 1 => m.PG = TRUE /\ m.cr3 = "kernel"
  /\ k > 3 => m.gdt = "kernel" /\ m.stack = "kernel"

(* The machine starts, with no line of the PICs open; or it is lost before *)
(* it opened one; or it runs, and is where the routine says.               *)
Booting(k) == unmasked = {} /\ pc = 0 /\ todo = SubSeq(_start, k, Len(_start)) /\ Early(cpu, k)
Lost == unmasked = {} /\ pc = 0 /\ todo = <<Do("lost", "")>> /\ Early(cpu, 10)
Running ==
  /\ unmasked # {} /\ pc \in 0 .. 24 /\ Here(cpu, pc)
  /\ todo \in Seq(LateSteps) /\ (pc > 0 => todo # << >>)
IInv == (\E k \in 1 .. 10 : Booting(k)) \/ Lost \/ Running

-----------------------------------------------------------------------------
(* Operators of the program's steps *)

LEMMA StartTail ==
  ASSUME NEW k \in 1 .. 10
  PROVE  LET s == SubSeq(_start, k, Len(_start))
         IN  /\ s # << >> /\ Head(s).op = Start[k]
             /\ Tail(s) = SubSeq(_start, k + 1, Len(_start))
<1>1. /\ _start \in Seq(AllSteps) /\ Len(_start) >= 10 /\ Len(_start) \in Nat
      /\ \A i \in 1 .. 10 : _start[i].op = Start[i]
  BY StartBegins, LenProperties DEF Begins
<1>2. k \in 1 .. Len(_start) /\ Len(_start) \in k .. Len(_start)
  BY <1>1
<1>3. /\ Head(SubSeq(_start, k, Len(_start))) = _start[k]
      /\ Tail(SubSeq(_start, k, Len(_start))) = SubSeq(_start, k + 1, Len(_start))
  BY <1>1, <1>2, HeadTailOfSubSeq
<1>4. \A i \in k .. Len(_start) : _start[i] \in AllSteps
  BY <1>1, ElementOfSeq
<1>5. Len(SubSeq(_start, k, Len(_start))) = Len(_start) - k + 1
  BY <1>1, <1>2, <1>4, SubSeqProperties
<1>a. Len(<< >>) = 0 /\ Len(_start) - k + 1 # 0
  BY <1>1
<1>6. SubSeq(_start, k, Len(_start)) # << >>
  BY <1>5, <1>a
<1>7. QED
  BY <1>1, <1>3, <1>6

LEMMA RestIsLate == SubSeq(_start, 11, Len(_start)) \in Seq(LateSteps)
<1>1. _start \in Seq(AllSteps) /\ Len(_start) \in Nat /\ \A i \in 11 .. Len(_start) : _start[i] \in LateSteps
  BY StartBegins, LenProperties DEF Begins
<1>2. QED
  BY <1>1, SubSeqProperties

LEMMA LostIsLate == <<Do("lost", "")>> \in Seq(LateSteps) /\ <<Do("lost", "")>> # << >>
                    /\ Head(<<Do("lost", "")>>).op = "lost"
<1>1. "lost" \in LateOps /\ "" \in Args
  BY DEF LateOps, Args
<1>2. Do("lost", "") \in LateSteps
  BY <1>1, DoIsLate
<1>3. <<Do("lost", "")>> \in Seq(LateSteps)
  BY <1>2, Tuples
<1>4. Do("lost", "").op = "lost"
  BY DEF Do
<1>5. \A d : <<d>> # << >> /\ Head(<<d>>) = d
  OBVIOUS
<1>6. QED
  BY <1>3, <1>4, <1>5

LEMMA LeastOf ==
  ASSUME NEW S, S \subseteq Nat, S # {}
  PROVE  Min(S) \in S
<1>1. PICK x \in S : \A y \in S : ~ (<<y, x>> \in OpToRel(<, Nat))
  BY NatLessThanWellFounded, WFMin
<1>2. \A y \in S : ~ (y < x)
  BY <1>1 DEF OpToRel
<1>3. \A y \in S : x =< y
  BY <1>2
<1>4. QED
  BY <1>3 DEF Min

LEMMA ReturnIsLate ==
  ASSUME NEW s \in Seq(LateSteps)
  PROVE  SubSeq(s, SelectInSeq(s, LAMBDA x : x.op = "return") + 1, Len(s)) \in Seq(LateSteps)
<1> DEFINE I == {i \in 1 .. Len(s) : s[i].op = "return"}
           n == SelectInSeq(s, LAMBDA x : x.op = "return")
<1>1. Len(s) \in Nat
  BY LenProperties
<1>2. n = IF I # {} THEN Min(I) ELSE 0
  BY DEF SelectInSeq
<1>3. I # {} => Min(I) \in I
  BY LeastOf
<1>4. n \in Nat
  BY <1>1, <1>2, <1>3
<1> HIDE DEF n
<1>5. \A i \in n + 1 .. Len(s) : s[i] \in LateSteps
  BY <1>1, <1>4, ElementOfSeq
<1>6. SubSeq(s, n + 1, Len(s)) \in Seq(LateSteps)
  BY <1>1, <1>4, <1>5, SubSeqProperties
<1>7. QED
  BY <1>6 DEF n

-----------------------------------------------------------------------------
(* The steps *)

LEMMA InitIsInv == Init => IInv
<1> SUFFICES ASSUME Init PROVE IInv
  OBVIOUS
<1>1. unmasked = {} /\ pc = 0 /\ todo = _start /\ cpu = Loaded
  BY DEF Init
<1>2. SubSeq(_start, 1, Len(_start)) = _start
  BY StartBegins, SubSeqFull DEF Begins
<1>3. Early(cpu, 1)
  BY <1>1 DEF Early, Loaded, Fields
<1>4. Booting(1)
  BY <1>1, <1>2, <1>3 DEF Booting
<1>5. QED
  BY <1>4 DEF IInv

(* A step that is not one of the first ten is done by a machine that runs. *)
LEMMA LateRuns ==
  ASSUME IInv, todo # << >>, Step.op \notin StartOps \cup {"lost"}
  PROVE  Running
<1>1. ASSUME NEW k \in 1 .. 10, Booting(k) PROVE FALSE
  BY <1>1, StartTail, StartAt DEF Booting, Step
<1>2. ~ Lost
  BY LostIsLate DEF Lost, Step
<1>3. QED
  BY <1>1, <1>2 DEF IInv

LEMMA RunningStep ==
  ASSUME Running, todo # << >>
  PROVE  Step.op \in LateOps /\ Tail(todo) \in Seq(LateSteps)
<1>1. Head(todo) \in LateSteps /\ Tail(todo) \in Seq(LateSteps)
  BY HeadTailProperties DEF Running
<1>2. QED
  BY <1>1 DEF Step, LateSteps

(* What every late step of the program that leaves the processor alone does. *)
LEMMA LateStep ==
  ASSUME IInv, todo # << >>, pc = 0, Step.op \notin StartOps \cup {"lost"},
         UNCHANGED <<cpu, pc>>, unmasked \subseteq unmasked',
         Tail(todo) \in Seq(LateSteps) => todo' \in Seq(LateSteps)
  PROVE  IInv'
<1>1. Running
  BY LateRuns
<1>2. todo' \in Seq(LateSteps)
  BY <1>1, RunningStep
<1>3. Running'
  BY <1>1, <1>2 DEF Running
<1>4. QED
  BY <1>3 DEF IInv

LEMMA EarlyLater ==
  ASSUME NEW m, NEW k \in 1 .. 10, Early(m, k), k \notin {1, 3}
  PROVE  Early(m, k + 1) /\ (k = 9 => Early(m, 10))
BY DEF Early

LEMMA PlainStep == IInv /\ Plain => IInv'
<1> SUFFICES ASSUME IInv, Plain PROVE IInv'
  OBVIOUS
<1>1. /\ todo # << >> /\ pc = 0 /\ Step.op \in Elsewhere /\ todo' = << >> \o Tail(todo)
      /\ cpu' = cpu /\ pc' = pc /\ unmasked' = unmasked
  BY DEF Plain, Then, machine, pic
<1>2. ASSUME NEW k \in 1 .. 10, Booting(k) PROVE IInv'
  <2>1. Step.op = Start[k] /\ Tail(todo) = SubSeq(_start, k + 1, Len(_start))
    BY <1>2, StartTail DEF Booting, Step
  <2>2. k \notin {1, 3, 10}
    BY <1>1, <2>1, StartAt
  <2>3. SubSeq(_start, k + 1, Len(_start)) \in Seq(AllSteps)
    <3>1. _start \in Seq(AllSteps) /\ Len(_start) \in Nat
      BY StartBegins, LenProperties DEF Begins
    <3>2. \A i \in k + 1 .. Len(_start) : _start[i] \in AllSteps
      BY <3>1, ElementOfSeq
    <3>3. QED
      BY <3>1, <3>2, SubSeqProperties
  <2>4. todo' = SubSeq(_start, k + 1, Len(_start))
    BY <1>1, <2>1, <2>3, ConcatEmptySeq
  <2>5. Early(cpu, k + 1)
    BY <1>2, <2>2, EarlyLater DEF Booting
  <2>6. Booting(k + 1)'
    BY <1>1, <1>2, <2>4, <2>5 DEF Booting, Early
  <2>7. k + 1 \in 1 .. 10
    BY <2>2
  <2>8. QED
    BY <2>6, <2>7 DEF IInv
<1>3. ~ Lost
  BY <1>1, LostIsLate DEF Lost, Step, Elsewhere
<1>4. ASSUME Running PROVE IInv'
  <2>1. Tail(todo) \in Seq(LateSteps)
    BY <1>1, <1>4, RunningStep
  <2>2. todo' \in Seq(LateSteps)
    BY <1>1, <2>1, ConcatEmptySeq
  <2>3. Running'
    BY <1>1, <1>4, <2>2 DEF Running
  <2>4. QED
    BY <2>3 DEF IInv
<1>5. QED
  BY <1>2, <1>3, <1>4 DEF IInv

(* The steps of the start, from Tail(todo) to the next stage.              *)
LEMMA StartStep ==
  ASSUME NEW k \in 1 .. 10, Booting(k), Then(<< >>)
  PROVE  /\ Step.op = Start[k]
         /\ todo' = SubSeq(_start, k + 1, Len(_start))
<1>1. Step.op = Start[k] /\ Tail(todo) = SubSeq(_start, k + 1, Len(_start))
  BY StartTail DEF Booting, Step
<1>2. _start \in Seq(AllSteps) /\ Len(_start) \in Nat
  BY StartBegins, LenProperties DEF Begins
<1>3. \A i \in k + 1 .. Len(_start) : _start[i] \in AllSteps
  BY <1>2, ElementOfSeq
<1>4. SubSeq(_start, k + 1, Len(_start)) \in Seq(AllSteps)
  BY <1>2, <1>3, SubSeqProperties
<1>5. QED
  BY <1>1, <1>4, ConcatEmptySeq DEF Then

LEMMA ProcessorStep == IInv /\ Processor => IInv'
<1> SUFFICES ASSUME IInv, Processor PROVE IInv'
  OBVIOUS
<1>1. todo # << >> /\ pc = 0 /\ Then(<< >>) /\ pc' = 0 /\ Step.op \in {"set PG", "init_gdt", "idt_init"}
  BY DEF Processor, At
<1>2. ~ Lost
  BY <1>1, LostIsLate DEF Lost, Step
<1>3. ~ Running
  <2>1. {"set PG", "init_gdt", "idt_init"} \cap LateOps = {}
    BY DEF LateOps, Elsewhere, Functions
  <2>2. QED
    BY <1>1, <2>1, RunningStep
<1>4. PICK k \in 1 .. 10 : Booting(k)
  BY <1>2, <1>3 DEF IInv
<1>5. Step.op = Start[k] /\ todo' = SubSeq(_start, k + 1, Len(_start)) /\ Early(cpu, k) /\ unmasked = {}
  BY <1>1, <1>4, StartStep DEF Booting
<1>6. CASE At("set PG")
  <2>1. k = 1 /\ Step.op = "set PG"
    BY <1>5, <1>6, StartAt DEF At
  <2>2. cpu' = [cpu EXCEPT !.PG = TRUE, !.cr3 = "kernel"] /\ unmasked' = unmasked
    BY <2>1 DEF Processor, At
  <2>3. Early(cpu, 2)'
    BY <1>5, <2>2 DEF Early, Fields
  <2>a. k + 1 = 2
    <3>1. k = 1
      BY <2>1
    <3>2. QED
      BY <3>1
  <2>b. todo' = SubSeq(_start, 2, Len(_start))
    BY <1>5, <2>a
  <2>4. Booting(2)'
    BY <1>1, <1>5, <2>2, <2>3, <2>b DEF Booting
  <2>5. QED
    BY <2>4 DEF IInv
<1>7. CASE At("init_gdt")
  <2>1. k = 3 /\ Step.op = "init_gdt"
    BY <1>5, <1>7, StartAt DEF At
  <2>2. cpu' = [cpu EXCEPT !.gdt = "kernel", !.stack = "kernel"] /\ unmasked' = unmasked
    BY <2>1 DEF Processor, At
  <2>3. Early(cpu, 4)'
    BY <1>5, <2>1, <2>2 DEF Early, Fields
  <2>a. k + 1 = 4
    <3>1. k = 3
      BY <2>1
    <3>2. QED
      BY <3>1
  <2>b. todo' = SubSeq(_start, 4, Len(_start))
    BY <1>5, <2>a
  <2>4. Booting(4)'
    BY <1>1, <1>5, <2>2, <2>3, <2>b DEF Booting
  <2>5. QED
    BY <2>4 DEF IInv
<1>8. CASE At("idt_init")
  <2>1. k = 10 /\ Step.op = "idt_init"
    BY <1>5, <1>8, StartAt DEF At
  <2>2. cpu' = [cpu EXCEPT !.idt = "kernel", !.IF = TRUE] /\ unmasked' = {0, 1}
    BY <2>1 DEF Processor, At
  <2>3. Here(cpu, 0)'
    BY <1>5, <2>1, <2>2 DEF Early, Here, Within, Fields
  <2>4. todo' \in Seq(LateSteps)
    BY <1>5, <2>1, RestIsLate
  <2>c. unmasked' # {}
    BY <2>2
  <2>d. pc' = 0
    BY <1>1
  <2>5. pc' \in 0 .. 24 /\ ~ (pc' > 0)
    BY <2>d
  <2>b. Here(cpu, pc)'
    BY <1>1, <2>3
  <2>6. Running'
    BY <2>4, <2>5, <2>b, <2>c DEF Running
  <2>7. QED
    BY <2>6 DEF IInv
<1>9. QED
  BY <1>6, <1>7, <1>8 DEF Processor

LEMMA LoadStep == IInv /\ load_multiboot_mods => IInv'
<1> SUFFICES ASSUME IInv, load_multiboot_mods PROVE IInv'
  OBVIOUS
<1>1. /\ todo # << >> /\ pc = 0 /\ Step.op = "load_multiboot_mods" /\ (Then(<< >>) \/ Lose)
      /\ pc' = pc /\ cpu' = cpu /\ unmasked' = unmasked
  BY DEF load_multiboot_mods, At, machine, pic
<1>2. ~ Lost
  BY <1>1, LostIsLate DEF Lost, Step
<1>3. ~ Running
  <2>1. "load_multiboot_mods" \notin LateOps
    BY DEF LateOps, Elsewhere, Functions
  <2>2. QED
    BY <1>1, <2>1, RunningStep
<1>4. PICK k \in 1 .. 10 : Booting(k)
  BY <1>2, <1>3 DEF IInv
<1>5. k \notin {1, 3, 10} /\ Early(cpu, k)
  BY <1>1, <1>4, StartTail, StartAt DEF Booting, Step
<1>6. CASE Then(<< >>)
  <2>1. todo' = SubSeq(_start, k + 1, Len(_start))
    BY <1>4, <1>6, StartStep
  <2>2. Early(cpu, k + 1)
    BY <1>5, EarlyLater
  <2>3. Booting(k + 1)'
    BY <1>1, <1>4, <2>1, <2>2 DEF Booting, Early
  <2>4. k + 1 \in 1 .. 10
    BY <1>5
  <2>5. QED
    BY <2>3, <2>4 DEF IInv
<1>7. CASE Lose
  <2>1. Early(cpu, 10)
    <3>1. k = 9
      <4>1. Start[9] = "load_multiboot_mods" /\ Start[k] = "load_multiboot_mods"
        BY <1>1, <1>4, StartTail DEF Booting, Step, Start
      <4>2. Start[2] # Start[9] /\ Start[4] # Start[9] /\ Start[5] # Start[9]
        BY DEF Start
      <4>3. Start[6] # Start[9] /\ Start[7] # Start[9] /\ Start[8] # Start[9]
        BY DEF Start
      <4>4. k = 2 \/ k = 4 \/ k = 5 \/ k = 6 \/ k = 7 \/ k = 8 \/ k = 9
        BY <1>5
      <4>5. QED
        BY <4>1, <4>2, <4>3, <4>4
    <3>2. QED
      BY <1>5, <3>1, EarlyLater
  <2>2. Lost'
    BY <1>1, <1>4, <1>7, <2>1 DEF Lost, Lose, Booting, Early
  <2>3. QED
    BY <2>2 DEF IInv
<1>8. QED
  BY <1>1, <1>6, <1>7

(* Operations that neither StartOps nor "lost" name.                       *)
LEMMA LateNames ==
  ASSUME NEW op \in Functions \cup {"pci_find_device", "ide_init", "command", "clear", "wait", "test_filesystem",
                                    "if 004F", "framebuffer", "draw_background", "halt"}
  PROVE  op \notin StartOps \cup {"lost"}
BY DEF Functions, StartOps

LEMMA Thens ==
  ASSUME NEW s, s \in Seq(LateSteps), NEW more \in Seq(LateSteps)
  PROVE  more \o s \in Seq(LateSteps)
BY Joined

LEMMA Empty == << >> \in Seq(LateSteps)
OBVIOUS

LEMMA DriverStep == IInv /\ (pci_find_device \/ ide_init \/ ModeIsSet) => IInv'
<1> SUFFICES ASSUME IInv, pci_find_device \/ ide_init \/ ModeIsSet PROVE IInv'
  OBVIOUS
<1>1. /\ todo # << >> /\ pc = 0 /\ Step.op \in {"pci_find_device", "ide_init", "framebuffer"}
      /\ cpu' = cpu /\ pc' = pc
      /\ (todo' = << >> \o Tail(todo) \/ todo' = todo)
  BY DEF pci_find_device, ide_init, ModeIsSet, At, Then, machine
<1>2. unmasked \subseteq unmasked'
  BY DEF pci_find_device, ide_init, ModeIsSet, Open, pic
<1>3. Step.op \notin StartOps \cup {"lost"}
  BY <1>1, LateNames
<1>4. todo \in Seq(LateSteps)
  BY <1>1, <1>3, LateRuns DEF Running
<1>5. Tail(todo) \in Seq(LateSteps) => todo' \in Seq(LateSteps)
  BY <1>1, <1>4, Thens, Empty
<1>6. QED
  BY <1>1, <1>2, <1>3, <1>5, LateStep

LEMMA DiskStep == IInv /\ (Command \/ ClearFlag \/ Wait \/ test_filesystem) => IInv'
<1> SUFFICES ASSUME IInv, Command \/ ClearFlag \/ Wait \/ test_filesystem PROVE IInv'
  OBVIOUS
<1>1. /\ todo # << >> /\ pc = 0 /\ Step.op \in {"command", "clear", "wait", "test_filesystem"}
      /\ cpu' = cpu /\ pc' = pc /\ unmasked \subseteq unmasked'
  BY DEF Command, ClearFlag, Wait, test_filesystem, At, machine, pic
<1>2. Step.op \notin StartOps \cup {"lost"}
  BY <1>1, LateNames
<1>3. Running
  BY <1>1, <1>2, LateRuns
<1>4. ASSUME Tail(todo) \in Seq(LateSteps) PROVE todo' \in Seq(LateSteps)
  <2>1. Then(<< >>) => todo' \in Seq(LateSteps)
    BY <1>4, Thens, Empty DEF Then
  <2>2. Lose => todo' \in Seq(LateSteps)
    BY LostIsLate DEF Lose
  <2>3. Return => todo' \in Seq(LateSteps)
    BY <1>3, ReturnIsLate DEF Return, Running
  <2>4. CASE Command
    BY <2>1, <2>2, <2>4 DEF Command
  <2>5. CASE ClearFlag
    BY <2>1, <2>5 DEF ClearFlag
  <2>6. CASE Wait
    <3>1. read_sectors("unreadable") \o Tail(todo) \in Seq(LateSteps)
      BY <1>4, ReadIsLate, Thens
    <3>2. QED
      BY <2>1, <2>3, <2>6, <3>1 DEF Wait
  <2>7. CASE test_filesystem
    <3>1. read_sectors("root") \o read_sectors("usr") \o read_sectors("lib") \o Returned \in Seq(LateSteps)
      BY ReadIsLate, ReturnedIsLate, Joined
    <3>2. QED
      BY <1>4, <2>7, <3>1, Thens, Empty DEF test_filesystem, Then
  <2>8. QED
    BY <2>4, <2>5, <2>6, <2>7
<1>5. QED
  BY <1>1, <1>2, <1>4, LateStep

LEMMA ScreenStep == IInv /\ (Check \/ draw_background) => IInv'
<1> SUFFICES ASSUME IInv, Check \/ draw_background PROVE IInv'
  OBVIOUS
<1>1. /\ todo # << >> /\ pc = 0 /\ Step.op \in {"if 004F", "draw_background"}
      /\ cpu' = cpu /\ pc' = pc /\ unmasked \subseteq unmasked'
  BY DEF Check, draw_background, At, machine, pic
<1>2. Step.op \notin StartOps \cup {"lost"}
  BY <1>1, LateNames
<1>3. Running
  BY <1>1, <1>2, LateRuns
<1>4. ASSUME Tail(todo) \in Seq(LateSteps) PROVE todo' \in Seq(LateSteps)
  <2>1. Then(<< >>) => todo' \in Seq(LateSteps)
    BY <1>4, Thens, Empty DEF Then
  <2>2. Lose => todo' \in Seq(LateSteps)
    BY LostIsLate DEF Lose
  <2>3. Return => todo' \in Seq(LateSteps)
    BY <1>3, ReturnIsLate DEF Return, Running
  <2>4. QED
    BY <2>1, <2>2, <2>3 DEF Check, draw_background
<1>5. QED
  BY <1>1, <1>2, <1>4, LateStep

LEMMA UseStep == IInv /\ ModeCall => IInv'
<1> SUFFICES ASSUME IInv, ModeCall PROVE IInv'
  OBVIOUS
<1>1. PICK steps \in Seq(LateSteps) : Use(steps)
  <2>1. \A m \in Modes : Use(vbe_set_mode(m)) => \E steps \in Seq(LateSteps) : Use(steps)
    BY SetModeIsLate
  <2>2. \A m \in Modes : Use(vbe_get_mode_info(m)) => \E steps \in Seq(LateSteps) : Use(steps)
    BY ModeInfoIsLate
  <2>3. QED
    BY <2>1, <2>2, SetMode2IsLate, ListIsLate, TextModeIsLate DEF ModeCall
<1>2. /\ todo # << >> /\ pc = 0 /\ Step.op = "halt" /\ todo' = steps \o todo
      /\ cpu' = cpu /\ pc' = pc /\ unmasked \subseteq unmasked'
  BY <1>1 DEF Use, At, machine, pic
<1>3. Step.op \notin StartOps \cup {"lost"}
  BY <1>2, LateNames
<1>4. todo \in Seq(LateSteps)
  BY <1>2, <1>3, LateRuns DEF Running
<1>5. todo' \in Seq(LateSteps)
  BY <1>2, <1>4, Thens
<1>6. QED
  BY <1>2, <1>3, <1>5, LateStep

LEMMA HaltStep == IInv /\ Halt => IInv'
<1> SUFFICES ASSUME IInv, Halt PROVE IInv'
  OBVIOUS
<1>1. /\ todo # << >> /\ pc = 0 /\ Step.op = "halt" /\ todo' = << >> \o Tail(todo)
      /\ cpu' = [cpu EXCEPT !.IF = FALSE] /\ pc' = pc /\ unmasked' = unmasked
  BY DEF Halt, At, Then, pic
<1>2. Step.op \notin StartOps \cup {"lost"}
  BY <1>1, LateNames
<1>3. Running
  BY <1>1, <1>2, LateRuns
<1>4. todo' \in Seq(LateSteps)
  BY <1>1, <1>3, RunningStep, Thens, Empty
<1>5. ASSUME NEW m, NEW n, Here(m, 0), n = [m EXCEPT !.IF = FALSE] PROVE Here(n, 0)
  BY <1>5 DEF Here, Within, Fields
<1>6. Here(cpu, 0)
  BY <1>1, <1>3 DEF Running
<1>7. Here(cpu', 0)
  BY <1>1, <1>5, <1>6
<1>8. Here(cpu, pc)'
  BY <1>1, <1>7
<1>9. Running'
  BY <1>1, <1>3, <1>4, <1>8 DEF Running
<1>10. QED
  BY <1>9 DEF IInv

LEMMA CallStep == IInv /\ vbe_bios_call => IInv'
<1> SUFFICES ASSUME IInv, vbe_bios_call PROVE IInv'
  OBVIOUS
<1>1. /\ todo # << >> /\ pc = 0 /\ Step.op \in Functions
      /\ ((pc' = 1 /\ todo' = todo) \/ (pc' = pc /\ Lose))
      /\ cpu' = cpu /\ unmasked' = unmasked
  BY DEF vbe_bios_call, pic
<1>2. Step.op \notin StartOps \cup {"lost"}
  BY <1>1, LateNames
<1>3. Running
  BY <1>1, <1>2, LateRuns
<1>4. CASE pc' = 1 /\ todo' = todo
  <2>1. \A m : Here(m, 0) => Here(m, 1)
    BY DEF Here, Within
  <2>2. Here(cpu', 1)
    BY <1>1, <1>3, <2>1 DEF Running
  <2>3. Here(cpu, pc)'
    BY <1>4, <2>2
  <2>4. Running'
    BY <1>1, <1>3, <1>4, <2>3 DEF Running
  <2>5. QED
    BY <2>4 DEF IInv
<1>5. CASE pc' = pc /\ Lose
  <2>1. todo' \in Seq(LateSteps)
    BY <1>5, LostIsLate DEF Lose
  <2>2. QED
    BY <1>1, <1>2, <1>5, <2>1, LateStep
<1>6. QED
  BY <1>1, <1>4, <1>5

LEMMA InstructionStep == IInv /\ Instruction => IInv'
<1> SUFFICES ASSUME IInv, Instruction PROVE IInv'
  OBVIOUS
<1>1. pc > 0 /\ cpu' = Exec(cpu, Routine[pc]) /\ unmasked' = unmasked
      /\ IF pc < Len(Routine) THEN pc' = pc + 1 /\ todo' = todo ELSE pc' = 0 /\ Then(<< >>)
  BY DEF Instruction, pic
<1>2. Running
  <2>1. pc # 0
    BY <1>1
  <2>2. ~ Lost
    BY <2>1 DEF Lost
  <2>3. \A k \in 1 .. 10 : ~ Booting(k)
    BY <2>1 DEF Booting
  <2>4. QED
    BY <2>2, <2>3 DEF IInv
<1>3. pc \in 1 .. 24 /\ Here(cpu, pc) /\ todo \in Seq(LateSteps) /\ todo # << >>
  BY <1>1, <1>2 DEF Running
<1>4. Here(cpu', pc + 1)
  BY <1>1, <1>3, ExecHere
<1>5. Len(Routine) = 24
  BY DEF Routine
<1>6. CASE pc < 24
  <2>1. pc' = pc + 1 /\ todo' = todo /\ pc' \in 0 .. 24
    BY <1>1, <1>3, <1>5, <1>6
  <2>2. Here(cpu, pc)'
    BY <1>4, <2>1
  <2>3. Running'
    BY <1>1, <1>2, <1>3, <2>1, <2>2 DEF Running
  <2>4. QED
    BY <2>3 DEF IInv
<1>7. CASE pc = 24
  <2>1. pc' = 0 /\ todo' = << >> \o Tail(todo)
    BY <1>1, <1>5, <1>7 DEF Then
  <2>2. todo' \in Seq(LateSteps)
    BY <1>2, <1>3, <2>1, RunningStep, Thens, Empty
  <2>3. \A m : Here(m, 25) => Here(m, 0)
    BY DEF Here, Within
  <2>4. Here(cpu', 25)
    BY <1>4, <1>7
  <2>5. Here(cpu, pc)'
    BY <2>1, <2>3, <2>4
  <2>6. Running'
    BY <1>1, <1>2, <2>1, <2>2, <2>5 DEF Running
  <2>7. QED
    BY <2>6 DEF IInv
<1>8. QED
  BY <1>3, <1>6, <1>7

(* The disk and the interrupts leave the program and the processor alone.  *)
LEMMA OtherStep ==
  ASSUME IInv, UNCHANGED <<todo, pc, cpu, unmasked>>
  PROVE  IInv'
<1>1. ASSUME NEW k \in 1 .. 10, Booting(k) PROVE IInv'
  <2>1. Booting(k)'
    BY <1>1 DEF Booting, Early
  <2>2. QED
    BY <2>1 DEF IInv
<1>2. ASSUME Lost PROVE IInv'
  BY <1>2 DEF IInv, Lost, Early
<1>3. ASSUME Running PROVE IInv'
  BY <1>3 DEF IInv, Running
<1>4. QED
  BY <1>1, <1>2, <1>3 DEF IInv

LEMMA NextIsInv == IInv /\ [Next]_vars => IInv'
<1> SUFFICES ASSUME IInv, [Next]_vars PROVE IInv'
  OBVIOUS
<1>1. CASE Program
  BY <1>1, PlainStep, ProcessorStep, LoadStep, DriverStep, DiskStep, ScreenStep, HaltStep, CallStep,
     InstructionStep DEF Program
<1>2. CASE ModeCall
  BY <1>2, UseStep
<1>3. CASE DiskAnswers \/ DiskInterrupt \/ (\E line \in Lines : RealModeInterrupt(line))
  <2>1. UNCHANGED <<todo, pc, cpu, unmasked>>
    BY <1>3 DEF DiskAnswers, DiskInterrupt, RealModeInterrupt, machine, pic
  <2>2. QED
    BY <2>1, OtherStep
<1>4. CASE DrawCall
  <2>1. UNCHANGED <<todo, pc, cpu, unmasked>>
    BY <1>4 DEF DrawCall, machine, pic
  <2>2. QED
    BY <2>1, OtherStep
<1>5. CASE UNCHANGED vars
  <2>1. UNCHANGED <<todo, pc, cpu, unmasked>>
    BY <1>5 DEF vars
  <2>2. QED
    BY <2>1, OtherStep
<1>6. QED
  BY <1>1, <1>2, <1>3, <1>4, <1>5 DEF Next

LEMMA InvIsConsistent == IInv => MachineIsConsistent
<1> SUFFICES ASSUME IInv PROVE MachineIsConsistent
  OBVIOUS
<1>1. ASSUME NEW k \in 1 .. 10, Booting(k) PROVE MachineIsConsistent
  BY <1>1 DEF Booting, Early, MachineIsConsistent
<1>2. ASSUME Lost PROVE MachineIsConsistent
  BY <1>2 DEF Lost, Early, MachineIsConsistent
<1>3. ASSUME Running PROVE MachineIsConsistent
  <2>1. pc \in 0 .. 24 /\ Here(cpu, pc)
    BY <1>3 DEF Running
  <2>2. cpu.fault = FALSE
    BY <2>1 DEF Here
  <2>3. ASSUME cpu.IF PROVE Dispatches(cpu)
    <3>1. Within(pc, 0, 4) \/ Within(pc, 15, 16) \/ pc = 24
      BY <2>1, <2>3 DEF Here, Within
    <3>2. CASE Within(pc, 0, 4)
      BY <2>1, <3>2 DEF Here, Within, Dispatches
    <3>3. CASE Within(pc, 15, 16)
      BY <2>1, <3>3 DEF Here, Within, Dispatches
    <3>4. CASE pc = 24
      BY <2>1, <3>4 DEF Here, Within, Dispatches
    <3>5. QED
      BY <3>1, <3>2, <3>3, <3>4
  <2>4. ASSUME pc = 0
        PROVE  KernelsView(cpu) = <<TRUE, TRUE, "kernel", "kernel", "32", "32", "kernel">>
    <3>1. cpu.PE = TRUE /\ cpu.PG = TRUE /\ cpu.cr3 = "kernel" /\ cpu.idt = "kernel"
      BY <2>1, <2>4 DEF Here, Within
    <3>2. cpu.code = "32" /\ cpu.data = "32" /\ cpu.stack = "kernel"
      BY <2>1, <2>4 DEF Here, Within
    <3>3. QED
      BY <3>1, <3>2 DEF KernelsView
  <2>5. QED
    BY <2>2, <2>3, <2>4 DEF MachineIsConsistent
<1>4. QED
  BY <1>1, <1>2, <1>3 DEF IInv

(* Whenever an interrupt can come, the modes, tables, segments and stack   *)
(* fit together, no instruction of the executer faults, and the kernel     *)
(* finds its own state again: for any modes and any program of late steps. *)
THEOREM MachineStaysConsistent == Spec => []MachineIsConsistent
<1>1. IInv /\ [Next]_vars => IInv'
  BY NextIsInv
<1>2. QED
  BY InitIsInv, <1>1, InvIsConsistent, PTL DEF Spec

-----------------------------------------------------------------------------
(* What is drawn *)

(* The modes that the driver can draw in, a row of pixels within the bytes *)
(* of a row; fonts whose characters are a pixel at least, and pictures.    *)
Shown(i) ==
  /\ i.bpp \in {16, 24, 32} /\ i.width \in Nat /\ i.height \in Nat /\ i.pitch \in Nat
  /\ i.width * (i.bpp \div 8) =< i.pitch
Drawable ==
  /\ \A m \in Modes : Shown(Mode[m])
  /\ \A font \in Fonts : font.width \in Nat \ {0} /\ font.height \in Nat \ {0}
  /\ Pictures \subseteq Nat \X Nat

(* A write that ends before the frame does.                                *)
InFrame(w, size) == w[1] >= 0 /\ w[2] >= 0 /\ w[1] + w[2] =< size

(* n bytes from byte a on in row y of a frame of rows of p bytes.          *)
LEMMA InRow ==
  ASSUME NEW p \in Nat, NEW h \in Nat, NEW y \in 0 .. h - 1, NEW a \in Nat, NEW n \in Nat, a + n =< p
  PROVE  y * p + a >= 0 /\ (y * p + a) + n =< p * h
<1>1. (y + 1) * p =< h * p /\ 0 =< y * p /\ y * p \in Int
  <2>1. CASE p = 0
    BY <2>1
  <2>2. CASE p # 0
    <3>1. \A k, l \in Int : k =< l => k * p =< l * p
      BY <2>2
    <3>2. 0 * p = 0 /\ 0 =< y
      OBVIOUS
    <3>3. QED
      BY <3>1, <3>2
  <2>3. QED
    BY <2>1, <2>2
<1>2. (y + 1) * p = y * p + p /\ h * p = p * h
  OBVIOUS
<1>3. QED
  BY <1>1, <1>2

(* A pixel of b bytes in a row whose pitch is counted in pixels.           *)
LEMMA InWords ==
  ASSUME NEW b \in {2, 4}, NEW p \in Nat, NEW h \in Nat, NEW w \in Nat, w * b =< p,
         NEW x \in 0 .. w - 1, NEW y \in 0 .. h - 1
  PROVE  b * (y * (p \div b) + x) >= 0 /\ b * (y * (p \div b) + x) + b =< p * h
<1>1. PICK q \in Nat : q = p \div b /\ b * q =< p /\ w =< q
  <2>1. CASE b = 2
    BY <2>1
  <2>2. CASE b = 4
    BY <2>2
  <2>3. QED
    BY <2>1, <2>2
<1>2. PICK s \in Nat : s = b * q
  BY <1>1
<1>3. y * s + b * x >= 0 /\ (y * s + b * x) + b =< s * h
  <2>1. b * x \in Nat /\ b \in Nat /\ b * x + b =< s
    <3>1. CASE b = 2
      BY <1>1, <1>2, <3>1
    <3>2. CASE b = 4
      BY <1>1, <1>2, <3>2
    <3>3. QED
      BY <3>1, <3>2
  <2>2. QED
    BY <2>1, InRow
<1>4. b * (y * q + x) = y * s + b * x
  <2>1. CASE b = 2
    BY <1>2, <2>1
  <2>2. CASE b = 4
    BY <1>2, <2>2
  <2>3. QED
    BY <2>1, <2>2
<1>5. s * h =< p * h
  <2>1. CASE h = 0
    BY <2>1
  <2>2. CASE h # 0
    BY <1>1, <1>2, <2>2
  <2>3. QED
    BY <2>1, <2>2
<1>6. b * (y * (p \div b) + x) = y * s + b * x
  BY <1>1, <1>4
<1>7. QED
  <2>1. y * s + b * x \in Int /\ s * h \in Int /\ p * h \in Int /\ b \in Int
    BY <1>2
  <2>2. QED
    BY <1>3, <1>5, <1>6, <2>1

LEMMA PixelIn ==
  ASSUME NEW i, Shown(i), NEW x \in 0 .. i.width - 1, NEW y \in 0 .. i.height - 1
  PROVE  InFrame(PixelAt(i, x, y), i.pitch * i.height)
<1>1. i.width \in Nat /\ i.height \in Nat /\ i.pitch \in Nat
  BY DEF Shown
<1>2. CASE i.bpp = 32
  <2>1. i.width * 4 =< i.pitch
    BY <1>2 DEF Shown
  <2>2. PixelAt(i, x, y) = <<4 * (y * (i.pitch \div 4) + x), 4>>
    BY <1>2 DEF PixelAt
  <2>3. QED
    BY <1>1, <2>1, <2>2, InWords DEF InFrame
<1>3. CASE i.bpp = 24
  <2>1. i.width * 3 =< i.pitch
    BY <1>3 DEF Shown
  <2>2. PixelAt(i, x, y) = <<y * i.pitch + x * 3, 3>>
    BY <1>3 DEF PixelAt
  <2>3. x * 3 \in Nat /\ x * 3 + 3 =< i.pitch
    BY <1>1, <2>1
  <2>4. QED
    BY <1>1, <2>2, <2>3, InRow DEF InFrame
<1>4. CASE i.bpp = 16
  <2>1. i.width * 2 =< i.pitch
    BY <1>4 DEF Shown
  <2>2. PixelAt(i, x, y) = <<2 * (y * (i.pitch \div 2) + x), 2>>
    BY <1>4 DEF PixelAt
  <2>3. QED
    BY <1>1, <2>1, <2>2, InWords DEF InFrame
<1>5. QED
  BY <1>2, <1>3, <1>4 DEF Shown

LEMMA InsideIs ==
  ASSUME NEW m \in Modes, NEW writes, \A w \in writes : InFrame(w, Mode[m].pitch * Mode[m].height)
  PROVE  Inside(writes, m)
BY DEF Inside, FrameSize, InFrame

LEMMA PicturesIn ==
  ASSUME Drawable, NEW m \in Modes
  PROVE  /\ Inside(vbe_clear_screen(Mode[m]), m)
         /\ \A x \in Nat, y \in Nat : Inside(vbe_draw_pixel(Mode[m], x, y), m)
         /\ \A p \in Pictures : Inside(display_image(Mode[m], p[1], p[2]), m)
<1> DEFINE i == Mode[m]
           size == i.pitch * i.height
<1>1. Shown(i)
  BY DEF Drawable
<1>2. i.width \in Nat /\ i.height \in Nat
  BY <1>1 DEF Shown
<1>3. ASSUME NEW x \in Nat, NEW y \in Nat, NEW w \in vbe_draw_pixel(i, x, y)
      PROVE  InFrame(w, size)
  <2>1. x < i.width /\ y < i.height /\ w = PixelAt(i, x, y)
    BY <1>2, <1>3 DEF vbe_draw_pixel
  <2>2. x \in 0 .. i.width - 1 /\ y \in 0 .. i.height - 1
    BY <1>2, <2>1
  <2>3. QED
    BY <1>1, <2>1, <2>2, PixelIn
<1>4. ASSUME NEW w \in vbe_clear_screen(i) PROVE InFrame(w, size)
  <2>1. PICK x \in 0 .. i.width - 1, y \in 0 .. i.height - 1 : w = PixelAt(i, x, y)
    BY DEF vbe_clear_screen
  <2>2. QED
    BY <1>1, <2>1, PixelIn
<1>5. ASSUME NEW p \in Pictures, NEW w \in display_image(i, p[1], p[2]) PROVE InFrame(w, size)
  <2>1. p[1] \in Nat /\ p[2] \in Nat
    BY DEF Drawable
  <2>2. PICK x \in 0 .. p[1] - 1, y \in 0 .. p[2] - 1 : w \in vbe_draw_pixel(i, x, y)
    BY DEF display_image
  <2>3. x \in Nat /\ y \in Nat
    BY <2>1
  <2>4. QED
    BY <1>3, <2>2, <2>3
<1>6. QED
  BY <1>3, <1>4, <1>5, InsideIs

(* The text cursor is on a screen of mode i, in the font that was loaded.  *)
Cursor == {"font", "col", "row", "max_col", "max_row"}
Fits(c, i) ==
  /\ DOMAIN c = Cursor /\ i.bpp >= 24 /\ c.font \in Fonts
  /\ c.max_col = i.width \div c.font.width /\ c.max_row = i.height \div c.font.height
  /\ c.col \in 0 .. c.max_col - 1 /\ c.row \in 0 .. c.max_row - 1

LEMMA Quotient ==
  ASSUME NEW n \in Nat \ {0}, NEW v \in Nat, NEW k \in 0 .. (v \div n) - 1
  PROVE  /\ v \div n \in Nat /\ k \in Nat
         /\ k * n \in Nat /\ k * n + n =< v
<1>1. PICK q \in Nat : q = v \div n /\ q * n =< v
  OBVIOUS
<1>2. (k + 1) * n =< q * n
  BY <1>1
<1>3. QED
  BY <1>1, <1>2

(* The sizes of a cursor that fits.                                        *)
LEMMA Sizes ==
  ASSUME Drawable, NEW i, Shown(i), NEW c, Fits(c, i)
  PROVE  /\ i.width \in Nat /\ i.height \in Nat /\ i.pitch \in Nat /\ i.width * 3 =< i.pitch
         /\ c.font.width \in Nat \ {0} /\ c.font.height \in Nat \ {0}
         /\ c.max_col \in Nat \ {0} /\ c.max_row \in Nat \ {0} /\ c.col \in Nat /\ c.row \in Nat
         /\ c.col * c.font.width \in Nat /\ c.col * c.font.width + c.font.width =< i.width
         /\ c.row * c.font.height \in Nat /\ c.row * c.font.height + c.font.height =< i.height
         /\ c.font.height =< i.height
<1>1. /\ i.width \in Nat /\ i.height \in Nat /\ i.pitch \in Nat /\ i.width * 3 =< i.pitch
  <2>1. i.width \in Nat /\ i.height \in Nat /\ i.pitch \in Nat /\ i.bpp \in {24, 32}
    BY DEF Shown, Fits
  <2>2. CASE i.bpp = 24
    BY <2>1, <2>2 DEF Shown
  <2>3. CASE i.bpp = 32
    <3>1. i.width * 4 =< i.pitch
      BY <2>3 DEF Shown
    <3>2. QED
      BY <2>1, <3>1
  <2>4. QED
    BY <2>1, <2>2, <2>3
<1>2. c.font.width \in Nat \ {0} /\ c.font.height \in Nat \ {0}
  BY DEF Drawable, Fits
<1>3. PICK w \in Nat \ {0}, h \in Nat \ {0} : w = c.font.width /\ h = c.font.height
  BY <1>2
<1>4. PICK wide \in Nat, high \in Nat : wide = i.width /\ high = i.height
  BY <1>1
<1>5. /\ c.max_col = wide \div w /\ c.max_row = high \div h
      /\ c.col \in 0 .. (wide \div w) - 1 /\ c.row \in 0 .. (high \div h) - 1
  BY <1>3, <1>4 DEF Fits
<1>6. /\ wide \div w \in Nat /\ c.col \in Nat /\ c.col * w \in Nat /\ c.col * w + w =< wide
  BY <1>5, Quotient
<1>7. /\ high \div h \in Nat /\ c.row \in Nat /\ c.row * h \in Nat /\ c.row * h + h =< high
  BY <1>5, Quotient
<1>8. c.max_col # 0 /\ c.max_row # 0
  BY <1>5
<1>9. h =< high
  BY <1>7
<1>10. QED
  BY <1>1, <1>2, <1>3, <1>4, <1>5, <1>6, <1>7, <1>8, <1>9

LEMMA ScrolledIn ==
  ASSUME Drawable, NEW i, Shown(i), NEW c, Fits(c, i), NEW w \in scroll_up(i, c.font)
  PROVE  InFrame(w, i.pitch * i.height)
<1>1. PICK p \in Nat, h \in Nat, wide \in Nat, f \in Nat :
        p = i.pitch /\ h = i.height /\ wide = i.width /\ f = c.font.height /\ f =< h /\ wide * 3 =< p
  BY Sizes
<1>2. CASE w = <<0, p * (h - f)>>
  <2>1. PICK k \in Nat, n \in Nat : k = h - f /\ n = p * k /\ k =< h
    BY <1>1
  <2>2. n =< p * h
    <3>1. CASE p = 0
      BY <2>1, <3>1
    <3>2. CASE p # 0
      BY <2>1, <3>2
    <3>3. QED
      BY <3>1, <3>2
  <2>3. w = <<0, n>>
    BY <1>2, <2>1
  <2>4. QED
    BY <1>1, <2>2, <2>3 DEF InFrame
<1>3. ASSUME NEW row \in h - f .. h - 1, NEW j \in 0 .. wide - 1, w = <<row * p + j * 3, 3>>
      PROVE  InFrame(w, i.pitch * i.height)
  <2>1. row \in 0 .. h - 1 /\ j * 3 \in Nat /\ j * 3 + 3 =< p
    BY <1>1
  <2>2. row * p + j * 3 >= 0 /\ (row * p + j * 3) + 3 =< p * h
    BY <2>1, InRow
  <2>3. QED
    BY <1>1, <1>3, <2>2 DEF InFrame
<1>4. QED
  BY <1>1, <1>2, <1>3 DEF scroll_up

LEMMA GlyphIn ==
  ASSUME Drawable, NEW i, Shown(i), NEW c, Fits(c, i),
         NEW w \in draw_char_at(i, c.font, c.col * c.font.width, c.row * c.font.height)
  PROVE  InFrame(w, i.pitch * i.height)
<1>1. PICK p \in Nat, h \in Nat, wide \in Nat, fw \in Nat, fh \in Nat, x \in Nat, y \in Nat :
        /\ p = i.pitch /\ h = i.height /\ wide = i.width /\ fw = c.font.width /\ fh = c.font.height
        /\ x = c.col * c.font.width /\ y = c.row * c.font.height
        /\ x + fw =< wide /\ y + fh =< h /\ wide * 3 =< p
  BY Sizes
<1>2. PICK r \in 0 .. fh - 1 : w = <<(y + r) * p + x * 3, fw * 3>>
  BY <1>1 DEF draw_char_at
<1>3. y + r \in 0 .. h - 1 /\ x * 3 \in Nat /\ fw * 3 \in Nat /\ x * 3 + fw * 3 =< p
  BY <1>1
<1>4. (y + r) * p + x * 3 >= 0 /\ ((y + r) * p + x * 3) + fw * 3 =< p * h
  BY <1>3, InRow
<1>5. QED
  BY <1>1, <1>2, <1>3, <1>4 DEF InFrame

(* A line down, or the screen up: the cursor is at the start of a row.     *)
LEMMA NextRowFits ==
  ASSUME Drawable, NEW i, Shown(i), NEW c, Fits(c, i), NEW d, d = [c EXCEPT !.col = @ + 1] \/ d = c
  PROVE  /\ Fits(NextRow(d, i).at, i)
         /\ \A w \in NextRow(d, i).writes : InFrame(w, i.pitch * i.height)
<1>1. /\ c.max_col \in Nat \ {0} /\ c.max_row \in Nat \ {0} /\ c.row \in Nat /\ c.row < c.max_row
  BY Sizes DEF Fits
<1>2. /\ DOMAIN d = Cursor /\ d.font = c.font /\ d.max_col = c.max_col /\ d.max_row = c.max_row /\ d.row = c.row
  BY DEF Fits, Cursor
<1>3. CASE d.row < d.max_row - 1
  <2>1. NextRow(d, i).at = [d EXCEPT !.row = @ + 1, !.col = 0] /\ NextRow(d, i).writes = {}
    BY <1>3 DEF NextRow
  <2>2. PICK e : e = [d EXCEPT !.row = @ + 1, !.col = 0]
    OBVIOUS
  <2>3. /\ DOMAIN e = Cursor /\ e.font = c.font /\ e.max_col = c.max_col /\ e.max_row = c.max_row
        /\ e.row = c.row + 1 /\ e.col = 0
    BY <1>2, <2>2 DEF Cursor
  <2>4. Fits(e, i)
    BY <1>1, <1>2, <1>3, <2>3 DEF Fits
  <2>5. QED
    BY <2>1, <2>2, <2>4
<1>4. CASE ~ (d.row < d.max_row - 1)
  <2>1. NextRow(d, i).at = [d EXCEPT !.row = d.max_row - 1, !.col = 0] /\ NextRow(d, i).writes = scroll_up(i, d.font)
    BY <1>4 DEF NextRow
  <2>2. PICK e : e = [d EXCEPT !.row = d.max_row - 1, !.col = 0]
    OBVIOUS
  <2>3. /\ DOMAIN e = Cursor /\ e.font = c.font /\ e.max_col = c.max_col /\ e.max_row = c.max_row
        /\ e.row = c.max_row - 1 /\ e.col = 0
    BY <1>2, <2>2 DEF Cursor
  <2>4. Fits(e, i)
    BY <1>1, <2>3 DEF Fits
  <2>5. QED
    BY <1>2, <2>1, <2>2, <2>4, ScrolledIn
<1>5. QED
  BY <1>3, <1>4

LEMMA PutFits ==
  ASSUME Drawable, NEW m \in Modes, NEW c, Fits(c, Mode[m]), NEW k \in {"glyph", "missing", "newline", "return"}
  PROVE  /\ Fits(vbe_putchar(c, Mode[m], k).at, Mode[m])
         /\ Inside(vbe_putchar(c, Mode[m], k).writes, m)
<1>1. PICK i : i = Mode[m] /\ Shown(i) /\ Fits(c, i)
  BY DEF Drawable
<1>2. ASSUME NEW put, Fits(put.at, i), \A w \in put.writes : InFrame(w, i.pitch * i.height),
             vbe_putchar(c, i, k) = put
      PROVE  Fits(vbe_putchar(c, i, k).at, i) /\ Inside(vbe_putchar(c, i, k).writes, m)
  BY <1>1, <1>2, InsideIs
<1>3. CASE k = "newline"
  <2>1. vbe_putchar(c, i, k) = NextRow(c, i)
    BY <1>3 DEF vbe_putchar
  <2>2. /\ Fits(NextRow(c, i).at, i)
        /\ \A w \in NextRow(c, i).writes : InFrame(w, i.pitch * i.height)
    BY <1>1, NextRowFits
  <2>3. QED
    BY <1>1, <1>2, <2>1, <2>2
<1>4. CASE k = "return"
  <2>1. PICK e : e = [c EXCEPT !.col = 0]
    OBVIOUS
  <2>2. vbe_putchar(c, i, k) = [at |-> e, writes |-> {}]
    BY <1>4, <2>1 DEF vbe_putchar
  <2>3. /\ DOMAIN e = Cursor /\ e.font = c.font /\ e.max_col = c.max_col /\ e.max_row = c.max_row
        /\ e.row = c.row /\ e.col = 0
    BY <1>1, <2>1 DEF Cursor, Fits
  <2>4. c.max_col \in Nat \ {0}
    BY <1>1, Sizes
  <2>5. Fits(e, i)
    BY <1>1, <2>3, <2>4 DEF Fits
  <2>6. QED
    BY <1>1, <1>2, <2>2, <2>5
<1>5. CASE k \in {"glyph", "missing"}
  <2> DEFINE glyph == IF k = "missing" THEN {}
                      ELSE draw_char_at(i, c.font, c.col * c.font.width, c.row * c.font.height)
             next  == [c EXCEPT !.col = @ + 1]
  <2>1. vbe_putchar(c, i, k) = IF next.col < c.max_col THEN [at |-> next, writes |-> glyph]
                               ELSE [NextRow(next, i) EXCEPT !.writes = @ \union glyph]
    <3>1. k # "newline" /\ k # "return" /\ next.max_col = c.max_col
      BY <1>1, <1>5 DEF Fits, Cursor
    <3>2. QED
      BY <3>1 DEF vbe_putchar
  <2>2. \A w \in glyph : InFrame(w, i.pitch * i.height)
    BY <1>1, GlyphIn
  <2>3. /\ DOMAIN next = Cursor /\ next.font = c.font /\ next.max_col = c.max_col /\ next.max_row = c.max_row
        /\ next.row = c.row /\ next.col = c.col + 1
    BY <1>1 DEF Cursor, Fits
  <2>4. c.col \in Nat /\ c.max_col \in Nat
    BY <1>1, Sizes
  <2>5. /\ Fits(NextRow(next, i).at, i)
        /\ \A w \in NextRow(next, i).writes : InFrame(w, i.pitch * i.height)
    BY <1>1, NextRowFits
  <2>6. DOMAIN NextRow(next, i) = {"at", "writes"}
    BY DEF NextRow
  <2> HIDE DEF glyph, next
  <2>7. CASE next.col < c.max_col
    <3>1. Fits(next, i)
      BY <1>1, <2>3, <2>4, <2>7 DEF Fits
    <3>2. PICK put : put = [at |-> next, writes |-> glyph]
      OBVIOUS
    <3>3. QED
      BY <1>1, <1>2, <2>1, <2>2, <2>7, <3>1, <3>2
  <2>8. CASE ~ (next.col < c.max_col)
    <3>1. PICK put : put = [NextRow(next, i) EXCEPT !.writes = @ \union glyph]
      OBVIOUS
    <3>2. put.at = NextRow(next, i).at /\ put.writes = NextRow(next, i).writes \union glyph
      BY <2>6, <3>1
    <3>3. QED
      BY <1>1, <1>2, <2>1, <2>2, <2>5, <2>8, <3>1, <3>2
  <2>9. QED
    BY <2>7, <2>8
<1>6. QED
  BY <1>3, <1>4, <1>5

LEMMA FontFits ==
  ASSUME Drawable, NEW i, Shown(i), NEW c, DOMAIN c = Cursor, c.col \in Nat, NEW font \in Fonts, i.bpp >= 24,
         NEW new, new = vbe_load_font(c, i, font), c.col < new.max_col, c.row \in 0 .. new.max_row - 1
  PROVE  Fits(new, i)
<1>1. new = [c EXCEPT !.font = font, !.max_col = i.width \div font.width, !.max_row = i.height \div font.height]
  BY DEF vbe_load_font
<1>2. /\ DOMAIN new = Cursor /\ new.font = font /\ new.max_col = i.width \div font.width
      /\ new.max_row = i.height \div font.height /\ new.col = c.col /\ new.row = c.row
  BY <1>1 DEF Cursor
<1>3. i.width \in Nat /\ font.width \in Nat \ {0}
  BY DEF Shown, Drawable
<1>4. PICK n \in Int : n = new.max_col
  <2>1. \A v \in Nat, w \in Nat \ {0} : v \div w \in Int
    OBVIOUS
  <2>2. QED
    BY <1>2, <1>3, <2>1
<1>5. c.col \in 0 .. n - 1
  BY <1>4
<1>6. QED
  BY <1>2, <1>4, <1>5 DEF Fits

(* Wherever the cursor is, its column is a number.                         *)
LEMMA ColumnStays ==
  ASSUME NEW c, DOMAIN c = Cursor, c.col \in Nat, NEW i
  PROVE  /\ \A font : DOMAIN vbe_load_font(c, i, font) = Cursor /\ vbe_load_font(c, i, font).col \in Nat
         /\ \A k : DOMAIN vbe_putchar(c, i, k).at = Cursor /\ vbe_putchar(c, i, k).at.col \in Nat
<1>1. ASSUME NEW font PROVE DOMAIN vbe_load_font(c, i, font) = Cursor /\ vbe_load_font(c, i, font).col \in Nat
  BY DEF vbe_load_font, Cursor
<1>2. ASSUME NEW d, DOMAIN d = Cursor PROVE DOMAIN NextRow(d, i).at = Cursor /\ NextRow(d, i).at.col = 0
  BY <1>2 DEF NextRow, Cursor
<1>3. ASSUME NEW k PROVE DOMAIN vbe_putchar(c, i, k).at = Cursor /\ vbe_putchar(c, i, k).at.col \in Nat
  <2>1. CASE k = "newline"
    BY <1>2, <2>1 DEF vbe_putchar
  <2>2. CASE k = "return"
    <3>1. PICK e : e = [c EXCEPT !.col = 0]
      OBVIOUS
    <3>2. DOMAIN e = Cursor /\ e.col = 0
      BY <3>1 DEF Cursor
    <3>3. vbe_putchar(c, i, k).at = e
      BY <2>2, <3>1 DEF vbe_putchar
    <3>4. QED
      BY <3>2, <3>3
  <2>3. CASE k # "newline" /\ k # "return"
    <3>1. PICK next, glyph :
            /\ next = [c EXCEPT !.col = @ + 1]
            /\ vbe_putchar(c, i, k) = IF next.col < c.max_col THEN [at |-> next, writes |-> glyph]
                                      ELSE [NextRow(next, i) EXCEPT !.writes = @ \union glyph]
      BY <2>3 DEF vbe_putchar
    <3>2. DOMAIN next = Cursor /\ next.col = c.col + 1
      BY <3>1 DEF Cursor
    <3>3. PICK row, put : row = NextRow(next, i) /\ put = [row EXCEPT !.writes = @ \union glyph]
      OBVIOUS
    <3>4. DOMAIN row = {"at", "writes"}
      BY <3>3 DEF NextRow
    <3>5. put.at = row.at
      BY <3>3, <3>4
    <3>6. DOMAIN put.at = Cursor /\ put.at.col \in Nat
      BY <1>2, <3>2, <3>3, <3>5
    <3>7. PICK plain : plain = [at |-> next, writes |-> glyph]
      OBVIOUS
    <3>8. plain.at = next
      BY <3>7
    <3>9. vbe_putchar(c, i, k) = plain \/ vbe_putchar(c, i, k) = put
      BY <3>1, <3>3, <3>7
    <3>10. QED
      BY <3>2, <3>6, <3>8, <3>9
  <2>4. QED
    BY <2>1, <2>2, <2>3
<1>4. QED
  BY <1>1, <1>3

-----------------------------------------------------------------------------
(* The steps of vbe_set_mode that are left *)

(* A program in which a mode is taken for set only after the card was      *)
(* asked for it, and for its description, and said yes.                    *)
SetsMode(s, i, m) ==
  /\ i > 4 => s[i - 4].op = "4F02" /\ s[i - 4].arg = m
  /\ i > 3 => s[i - 3].op = "if 004F"
  /\ i > 2 => s[i - 2].op = "4F01" /\ s[i - 2].arg = m
  /\ i > 1 => s[i - 1].op = "if 004F"
Whole(s) ==
  /\ s \in Seq(AllSteps)
  /\ \A i \in 1 .. Len(s) : s[i].op = "framebuffer" => i > 4 /\ \E m \in Modes : SetsMode(s, i, m)

LEMMA WholeJoin ==
  ASSUME NEW a, NEW b, Whole(a), Whole(b)
  PROVE  Whole(a \o b)
<1>1. /\ a \o b \in Seq(AllSteps) /\ Len(a \o b) = Len(a) + Len(b) /\ Len(a) \in Nat /\ Len(b) \in Nat
      /\ \A i \in 1 .. Len(a) + Len(b) : (a \o b)[i] = IF i <= Len(a) THEN a[i] ELSE b[i - Len(a)]
  BY ConcatProperties, LenProperties DEF Whole
<1>2. ASSUME NEW i \in 1 .. Len(a \o b), (a \o b)[i].op = "framebuffer"
      PROVE  i > 4 /\ \E m \in Modes : SetsMode(a \o b, i, m)
  <2>1. CASE i <= Len(a)
    <3>1. i \in 1 .. Len(a) /\ a[i].op = "framebuffer"
      BY <1>1, <1>2, <2>1
    <3>2. PICK m \in Modes : i > 4 /\ SetsMode(a, i, m)
      BY <3>1 DEF Whole
    <3>3. (a \o b)[i - 4] = a[i - 4] /\ (a \o b)[i - 3] = a[i - 3]
          /\ (a \o b)[i - 2] = a[i - 2] /\ (a \o b)[i - 1] = a[i - 1]
      BY <1>1, <3>1, <3>2
    <3>4. QED
      BY <3>2, <3>3 DEF SetsMode
  <2>2. CASE ~ (i <= Len(a))
    <3>1. PICK j \in 1 .. Len(b) : j = i - Len(a) /\ b[j].op = "framebuffer"
      BY <1>1, <1>2, <2>2
    <3>2. PICK m \in Modes : j > 4 /\ SetsMode(b, j, m)
      BY <3>1 DEF Whole
    <3>3. (a \o b)[i - 4] = b[j - 4] /\ (a \o b)[i - 3] = b[j - 3]
          /\ (a \o b)[i - 2] = b[j - 2] /\ (a \o b)[i - 1] = b[j - 1]
      BY <1>1, <3>1, <3>2
    <3>4. i > 4 /\ j > 4 /\ j > 3 /\ j > 2 /\ j > 1
      BY <1>1, <3>1, <3>2
    <3>5. /\ b[j - 4].op = "4F02" /\ b[j - 4].arg = m /\ b[j - 3].op = "if 004F"
          /\ b[j - 2].op = "4F01" /\ b[j - 2].arg = m /\ b[j - 1].op = "if 004F"
      BY <3>2, <3>4 DEF SetsMode
    <3>6. SetsMode(a \o b, i, m)
      BY <3>3, <3>5 DEF SetsMode
    <3>7. QED
      BY <3>4, <3>6
  <2>3. QED
    BY <2>1, <2>2
<1>3. QED
  BY <1>1, <1>2 DEF Whole

LEMMA WholePlain ==
  ASSUME NEW s \in Seq(AllSteps), \A i \in 1 .. Len(s) : s[i].op # "framebuffer"
  PROVE  Whole(s)
BY DEF Whole

LEMMA WholeNames ==
  ASSUME NEW names \in Seq((LateOps \cup StartOps) \ {"framebuffer"})
  PROVE  Whole(Steps(names))
<1>1. "" \in Args
  BY DEF Args
<1>2. PICK n \in Nat : DOMAIN names = 1 .. n /\ names \in [1 .. n -> (LateOps \cup StartOps) \ {"framebuffer"}]
  BY LenProperties
<1>3. \A i \in 1 .. n : Steps(names)[i] = Do(names[i], "")
  BY <1>2 DEF Steps
<1>4. \A op \in LateOps \cup StartOps : Do(op, "") \in AllSteps /\ Do(op, "").op = op
  BY <1>1 DEF Do, AllSteps
<1>5. Steps(names) \in [1 .. n -> AllSteps]
  BY <1>2, <1>4 DEF Steps
<1>6. Steps(names) \in Seq(AllSteps) /\ Len(Steps(names)) = n
  BY <1>5, SeqDef, LenProperties
<1>7. ASSUME NEW i \in 1 .. n PROVE Steps(names)[i].op # "framebuffer"
  <2>1. names[i] \in LateOps \cup StartOps /\ names[i] # "framebuffer"
    BY <1>2
  <2>2. Do(names[i], "").op = names[i]
    BY <2>1, <1>4
  <2>3. QED
    BY <1>3, <2>1, <2>2
<1>8. QED
  BY <1>6, <1>7, WholePlain

LEMMA FewSteps ==
  /\ \A i \in 1 .. 0 : FALSE
  /\ \A i \in 1 .. 1 : i = 1
  /\ \A i \in 1 .. 2 : i = 1 \/ i = 2
  /\ \A i \in 1 .. 3 : i = 1 \/ i = 2 \/ i = 3
  /\ \A i \in 1 .. 4 : i = 1 \/ i = 2 \/ i = 3 \/ i = 4
OBVIOUS

LEMMA WholeTuples ==
  ASSUME NEW a \in AllSteps, NEW b \in AllSteps, NEW c \in AllSteps, NEW d \in AllSteps,
         a.op # "framebuffer", b.op # "framebuffer", c.op # "framebuffer", d.op # "framebuffer"
  PROVE  /\ Whole(<<a>>) /\ Whole(<<a, b>>) /\ Whole(<<a, b, c>>) /\ Whole(<<a, b, c, d>>)
         /\ Whole(<< >>)
<1>1. Whole(<<a>>)
  <2>1. PICK s : s = <<a>>
    OBVIOUS
  <2>2. s \in Seq(AllSteps) /\ Len(s) = 1 /\ s[1] = a
    BY <2>1
  <2>3. QED
    BY <2>1, <2>2, FewSteps, WholePlain
<1>2. Whole(<<a, b>>)
  <2>1. PICK s : s = <<a, b>>
    OBVIOUS
  <2>2. s \in Seq(AllSteps) /\ Len(s) = 2 /\ s[1] = a /\ s[2] = b
    BY <2>1
  <2>3. QED
    BY <2>1, <2>2, FewSteps, WholePlain
<1>3. Whole(<<a, b, c, d>>)
  <2>1. PICK s : s = <<a, b, c, d>>
    OBVIOUS
  <2>2. s \in Seq(AllSteps) /\ Len(s) = 4 /\ s[1] = a /\ s[2] = b /\ s[3] = c /\ s[4] = d
    BY <2>1
  <2>3. QED
    BY <2>1, <2>2, FewSteps, WholePlain
<1>4. Whole(<< >>)
  <2>1. PICK s : s = << >>
    OBVIOUS
  <2>2. s \in Seq(AllSteps) /\ Len(s) = 0
    BY <2>1
  <2>3. QED
    BY <2>1, <2>2, FewSteps, WholePlain
<1>5. Whole(<<a, b, c>>)
  <2>1. PICK s : s = <<a, b, c>>
    OBVIOUS
  <2>2. s \in Seq(AllSteps) /\ Len(s) = 3 /\ s[1] = a /\ s[2] = b /\ s[3] = c
    BY <2>1
  <2>3. QED
    BY <2>1, <2>2, FewSteps, WholePlain
<1>6. QED
  BY <1>1, <1>2, <1>3, <1>4, <1>5

(* Steps that set no mode by themselves. *)
LEMMA Other ==
  ASSUME NEW op \in LateOps \ {"framebuffer"}, NEW arg \in Args
  PROVE  Do(op, arg) \in AllSteps /\ Do(op, arg).op = op /\ Do(op, arg).arg = arg /\ Do(op, arg).op # "framebuffer"
BY DEF Do, AllSteps

LEMMA WholeReturned == Whole(Returned)
<1>1. "return" \in LateOps \ {"framebuffer"} /\ "" \in Args
  BY DEF LateOps, Elsewhere, Args
<1> DEFINE a == Do("return", "")
<1>2. a \in AllSteps /\ a.op # "framebuffer"
  BY <1>1, Other
<1>3. Returned = <<a>>
  BY DEF Returned
<1> HIDE DEF a
<1>4. QED
  BY <1>2, <1>3, WholeTuples

LEMMA WholeRead ==
  ASSUME NEW place \in {"mbr", "boot", "root", "usr", "lib", "unreadable"}
  PROVE  Whole(read_sectors(place))
<1>1. {"command", "clear", "wait"} \subseteq LateOps \ {"framebuffer"} /\ place \in Args
  BY DEF LateOps, Args
<1> DEFINE a == Do("command", place)
           b == Do("clear", place)
           c == Do("wait", place)
<1>2. /\ a \in AllSteps /\ a.op # "framebuffer" /\ b \in AllSteps /\ b.op # "framebuffer"
      /\ c \in AllSteps /\ c.op # "framebuffer"
  BY <1>1, Other
<1>3. read_sectors(place) = <<a, b, c>>
  BY DEF read_sectors
<1> HIDE DEF a, b, c
<1>4. QED
  BY <1>2, <1>3, WholeTuples

LEMMA FirstFive ==
  ASSUME NEW i \in 1 .. 5
  PROVE  i = 1 \/ i = 2 \/ i = 3 \/ i = 4 \/ i = 5
OBVIOUS

LEMMA FourBeforeFive == 5 > 4 /\ 5 - 4 = 1 /\ 5 - 3 = 2 /\ 5 - 2 = 3 /\ 5 - 1 = 4
OBVIOUS

LEMMA WholeFive ==
  ASSUME NEW m \in Modes, NEW a \in AllSteps, NEW b \in AllSteps, NEW c \in AllSteps, NEW d \in AllSteps,
         a.op = "4F02" /\ a.arg = m, b.op = "if 004F", c.op = "4F01" /\ c.arg = m, d.op = "framebuffer"
  PROVE  Whole(<<a, b, c, b, d>>)
<1>1. PICK s : s = <<a, b, c, b, d>>
  OBVIOUS
<1>2. s \in Seq(AllSteps)
  BY <1>1, Tuples
<1>3. Len(s) = 5 /\ s[1] = a /\ s[2] = b /\ s[3] = c /\ s[4] = b /\ s[5] = d
  BY <1>1
<1>4. SetsMode(s, 5, m)
  <2>1. s[5 - 4] = a /\ s[5 - 3] = b /\ s[5 - 2] = c /\ s[5 - 1] = b
    BY <1>3, FourBeforeFive
  <2>2. QED
    BY <2>1 DEF SetsMode
<1>5. \A i \in 1 .. 5 : s[i].op = "framebuffer" => i = 5
  BY <1>3, FirstFive
<1>6. 5 > 4
  BY FourBeforeFive
<1>7. QED
  BY <1>1, <1>2, <1>3, <1>4, <1>5, <1>6 DEF Whole

LEMMA WholeSetMode ==
  ASSUME NEW m \in Modes
  PROVE  Whole(vbe_set_mode(m))
<1>1. /\ {"4F02", "if 004F", "4F01"} \subseteq LateOps \ {"framebuffer"} /\ "framebuffer" \in LateOps
      /\ m \in Args /\ "" \in Args
  BY DEF LateOps, Functions, Args
<1> DEFINE a == Do("4F02", m)
           b == Success
           c == Do("4F01", m)
           d == Do("framebuffer", "")
<1>2. /\ a \in AllSteps /\ a.op = "4F02" /\ a.arg = m /\ b \in AllSteps /\ b.op = "if 004F"
      /\ c \in AllSteps /\ c.op = "4F01" /\ c.arg = m
  BY <1>1, Other DEF Success
<1>3. d \in AllSteps /\ d.op = "framebuffer"
  BY <1>1 DEF Do, AllSteps
<1>4. vbe_set_mode(m) = <<a, b, c, b, d>> \o Returned
  BY DEF vbe_set_mode
<1> HIDE DEF a, b, c, d
<1>5. Whole(<<a, b, c, b, d>>)
  BY <1>2, <1>3, WholeFive
<1>6. QED
  BY <1>4, <1>5, WholeReturned, WholeJoin

LEMMA WholeSetMode2 == Whole(vbe_set_mode2)
<1>1. /\ {"4F02", "if 004F", "4F01 0xA000"} \subseteq LateOps \ {"framebuffer"}
      /\ target_mode \in Args /\ "" \in Args
  BY BootAssumption DEF LateOps, Functions, Args
<1> DEFINE a == Do("4F01 0xA000", target_mode)
           b == Do("4F02", target_mode)
           c == Success
<1>2. /\ a \in AllSteps /\ a.op # "framebuffer" /\ b \in AllSteps /\ b.op # "framebuffer"
      /\ c \in AllSteps /\ c.op # "framebuffer"
  BY <1>1, Other DEF Success
<1>3. vbe_set_mode2 = <<a, b, c, a>> \o Returned
  BY DEF vbe_set_mode2
<1> HIDE DEF a, b, c
<1>4. QED
  BY <1>2, <1>3, WholeTuples, WholeReturned, WholeJoin

LEMMA WholeModeInfo ==
  ASSUME NEW m \in Modes
  PROVE  Whole(vbe_get_mode_info(m))
<1>1. "4F01 0xA000" \in LateOps \ {"framebuffer"} /\ m \in Args
  BY DEF LateOps, Functions, Args
<1> DEFINE a == Do("4F01 0xA000", m)
<1>2. a \in AllSteps /\ a.op # "framebuffer"
  BY <1>1, Other
<1>3. vbe_get_mode_info(m) = <<a>>
  BY DEF vbe_get_mode_info
<1> HIDE DEF a
<1>4. QED
  BY <1>2, <1>3, WholeTuples

LEMMA WholeTextMode == Whole(vbe_set_text_mode)
<1>1. {"0003", "0F03"} \subseteq LateOps \ {"framebuffer"} /\ "" \in Args
  BY DEF LateOps, Functions, Args
<1> DEFINE a == Do("0003", "")
           b == Do("0F03", "")
<1>2. a \in AllSteps /\ a.op # "framebuffer" /\ b \in AllSteps /\ b.op # "framebuffer"
  BY <1>1, Other
<1>3. vbe_set_text_mode = <<a, b>>
  BY DEF vbe_set_text_mode
<1> HIDE DEF a, b
<1>4. QED
  BY <1>2, <1>3, WholeTuples

LEMMA WholeList == Whole(vbe_list_supported_modes)
<1>1. {"4F00", "if 004F", "4F01"} \subseteq LateOps \ {"framebuffer"} /\ "" \in Args /\ Modes \subseteq Args
  BY DEF LateOps, Functions, Args
<1> DEFINE list == SetToSeq(Modes)
           n == Cardinality(Modes)
           asked == [i \in DOMAIN list |-> Do("4F01", list[i])]
           a == Do("4F00", "")
           b == Success
<1>2. n \in Nat /\ ExistsBijection(1 .. n, Modes)
  BY BootAssumption, FS_CardinalityType
<1>3. PICK f \in [1 .. n -> Modes] : \A u, v \in 1 .. n : f[u] = f[v] => u = v
  BY <1>2 DEF ExistsBijection, Bijection, Injection, IsInjective
<1>4. IsInjective(f)
  BY <1>3 DEF IsInjective
<1>5. list \in [1 .. n -> Modes]
  BY <1>4 DEF SetToSeq
<1>6. \A m \in Modes : Do("4F01", m) \in AllSteps /\ Do("4F01", m).op # "framebuffer"
  BY <1>1, Other
<1>7. asked \in [1 .. n -> AllSteps] /\ \A i \in 1 .. n : asked[i].op # "framebuffer"
  BY <1>5, <1>6
<1>8. asked \in Seq(AllSteps) /\ Len(asked) = n
  BY <1>2, <1>7, SeqDef, LenProperties
<1>9. Whole(asked)
  <2> HIDE DEF asked
  <2>1. QED
    BY <1>7, <1>8, WholePlain
<1>10. a \in AllSteps /\ a.op # "framebuffer" /\ b \in AllSteps /\ b.op # "framebuffer"
  BY <1>1, Other DEF Success
<1>11. vbe_list_supported_modes = vbe_set_text_mode \o <<a, b>> \o (asked \o Returned)
  BY DEF vbe_list_supported_modes
<1> HIDE DEF asked, a, b
<1>12. Whole(<<a, b>>)
  BY <1>10, WholeTuples
<1>13. Whole(vbe_set_text_mode \o <<a, b>>)
  BY <1>12, WholeTextMode, WholeJoin
<1>14. Whole(asked \o Returned)
  BY <1>9, WholeReturned, WholeJoin
<1>15. QED
  BY <1>11, <1>13, <1>14, WholeJoin

LEMMA WholeDrivers == Whole(init_drivers)
<1> DEFINE S == (LateOps \cup StartOps) \ {"framebuffer"}
<1>1. /\ "serial_init" \in S /\ "timer_init" \in S /\ "pci_find_device" \in S
      /\ "ide_init" \in S /\ "keyboard_init" \in S
  BY DEF LateOps, Elsewhere
<1>2. /\ "4F00" \in LateOps \ {"framebuffer"} /\ "" \in Args
  BY DEF LateOps, Functions, Args
<1> HIDE DEF S
<1>3. <<"serial_init", "timer_init", "pci_find_device", "ide_init", "keyboard_init">> \in Seq(S)
  BY <1>1, Tuples
<1>4. Whole(Steps(<<"serial_init", "timer_init", "pci_find_device", "ide_init", "keyboard_init">>))
  BY <1>3, WholeNames DEF S
<1>5. Whole(vbe_init)
  <2>1. PICK a : a = Do("4F00", "")
    OBVIOUS
  <2>2. a \in AllSteps /\ a.op # "framebuffer"
    BY <1>2, <2>1, Other
  <2>3. QED
    BY <2>1, <2>2, WholeTuples DEF vbe_init
<1>6. QED
  BY <1>4, <1>5, WholeJoin DEF init_drivers

LEMMA WholeFsInit == Whole(fs_init)
<1>1. Whole(read_sectors("mbr")) /\ Whole(read_sectors("boot"))
  BY WholeRead
<1>2. QED
  BY <1>1, WholeReturned, WholeJoin DEF fs_init

LEMMA WholeKernel == Whole(kernel_init)
<1> DEFINE S == (LateOps \cup StartOps) \ {"framebuffer"}
<1>1. /\ "vga_clear" \in S /\ "logger_init" \in S /\ "init_paging_stage2" \in S /\ "init_heap" \in S
      /\ "enable_fpu" \in S /\ "load_multiboot_mods" \in S /\ "idt_init" \in S
  BY DEF LateOps, StartOps
<1>2. /\ "vfs_init" \in S /\ "init_process" \in S /\ "test_filesystem" \in S /\ "draw_background" \in S
  BY DEF LateOps, Elsewhere
<1> HIDE DEF S
<1>3. <<"vga_clear", "logger_init", "init_paging_stage2", "init_heap", "enable_fpu",
        "load_multiboot_mods", "idt_init">> \in Seq(S)
  BY <1>1
<1>4. <<"vfs_init">> \in Seq(S) /\ <<"init_process", "test_filesystem">> \in Seq(S)
      /\ <<"draw_background">> \in Seq(S)
  BY <1>2, Tuples
<1>5. /\ Whole(Steps(<<"vga_clear", "logger_init", "init_paging_stage2", "init_heap", "enable_fpu",
                       "load_multiboot_mods", "idt_init">>))
      /\ Whole(Steps(<<"vfs_init">>)) /\ Whole(Steps(<<"init_process", "test_filesystem">>))
      /\ Whole(Steps(<<"draw_background">>))
  BY <1>3, <1>4, WholeNames DEF S
<1>6. BootMode \in Modes
  BY BootAssumption
<1>7. Whole(vbe_set_mode(BootMode))
  BY <1>6, WholeSetMode
<1> DEFINE p1 == Steps(<<"vga_clear", "logger_init", "init_paging_stage2", "init_heap", "enable_fpu",
                         "load_multiboot_mods", "idt_init">>)
           p2 == Steps(<<"vfs_init">>)
           p3 == Steps(<<"init_process", "test_filesystem">>)
           p4 == Steps(<<"draw_background">>)
<1>8. kernel_init = p1 \o init_drivers \o p2 \o fs_init \o p3 \o vbe_set_mode(BootMode) \o p4
  BY DEF kernel_init
<1>9. Whole(p1) /\ Whole(p2) /\ Whole(p3) /\ Whole(p4)
  BY <1>5
<1> HIDE DEF p1, p2, p3, p4
<1>10. Whole(p1 \o init_drivers \o p2)
  BY <1>9, WholeDrivers, WholeJoin
<1>11. Whole(p1 \o init_drivers \o p2 \o fs_init \o p3)
  BY <1>9, <1>10, WholeFsInit, WholeJoin
<1>12. Whole(p1 \o init_drivers \o p2 \o fs_init \o p3 \o vbe_set_mode(BootMode) \o p4)
  BY <1>7, <1>9, <1>11, WholeJoin
<1>13. QED
  BY <1>8, <1>12

LEMMA WholeStart == Whole(_start)
<1> DEFINE S == (LateOps \cup StartOps) \ {"framebuffer"}
<1>1. "set PG" \in S /\ "init_paging_stage1" \in S /\ "init_gdt" \in S /\ "halt" \in S
  BY DEF LateOps, StartOps
<1> HIDE DEF S
<1>2. <<"set PG", "init_paging_stage1", "init_gdt">> \in Seq(S)
  BY <1>1, Tuples
<1>a. <<"halt">> \in Seq(S)
  BY <1>1, Tuples
<1>3. Whole(Steps(<<"set PG", "init_paging_stage1", "init_gdt">>)) /\ Whole(Steps(<<"halt">>))
  BY <1>2, <1>a, WholeNames DEF S
<1>4. QED
  BY <1>3, WholeKernel, WholeJoin DEF _start

-----------------------------------------------------------------------------
(* What the card has been asked *)

(* While the steps of vbe_set_mode are under way: what is known of the     *)
(* card and of the block, with the function's last step at place i, the    *)
(* executer at k, and the BIOS's last answer b.                            *)
CallAt == 15
Known(i, m, k, b, c, info) ==
  /\ i = 5 /\ k > CallAt /\ b = "004F" => c = m
  /\ i = 4 /\ b = "004F" => c = m
  /\ i = 3 => c = m
  /\ i = 3 /\ k > CallAt /\ b = "004F" => info = m
  /\ i = 2 => c = m /\ (b = "004F" => info = m)
  /\ i = 1 => c = m /\ info = m
Ready(s, k, b, c, info) ==
  \A i \in 1 .. Len(s) : s[i].op = "framebuffer" =>
    \E m \in Modes : SetsMode(s, i, m) /\ Known(i, m, k, b, c, info)

LEMMA Far ==
  ASSUME NEW i \in Int, i > 5
  PROVE  i > 4 /\ i > 3 /\ i > 2 /\ i > 1 /\ i # 5 /\ i # 4 /\ i # 3 /\ i # 2 /\ i # 1
OBVIOUS

(* Once the first five steps are not its own, nothing is to be known.      *)
LEMMA KnownFar ==
  ASSUME NEW i \in Int, NEW k, i > 5 \/ (i = 5 /\ k = 0), NEW m, NEW b, NEW c, NEW info
  PROVE  Known(i, m, k, b, c, info)
<1>1. ~ (0 > CallAt)
  BY DEF CallAt
<1>2. i = 5 => k = 0
  OBVIOUS
<1>3. i # 4 /\ i # 3 /\ i # 2 /\ i # 1
  OBVIOUS
<1>4. QED
  BY <1>1, <1>2, <1>3 DEF Known

LEMMA WholeIsReady ==
  ASSUME NEW s, Whole(s), NEW b, NEW c, NEW info
  PROVE  Ready(s, 0, b, c, info)
<1>1. ASSUME NEW i \in 1 .. Len(s), s[i].op = "framebuffer"
      PROVE  \E m \in Modes : SetsMode(s, i, m) /\ Known(i, m, 0, b, c, info)
  <2>1. PICK m \in Modes : i > 4 /\ SetsMode(s, i, m)
    BY <1>1 DEF Whole
  <2>2. i \in Int /\ (i > 5 \/ i = 5)
    BY <2>1
  <2>3. Known(i, m, 0, b, c, info)
    BY <2>2, KnownFar
  <2>4. QED
    BY <2>1, <2>3
<1>2. QED
  BY <1>1 DEF Ready

(* The three steps that come before a function's last.                     *)
Asks == {"4F02", "if 004F", "4F01"}

LEMMA AsksBefore ==
  ASSUME NEW s, NEW k \in Nat, NEW m, SetsMode(s, k, m),
         NEW j \in Nat, 1 <= j, j < k, j >= k - 4
  PROVE  s[j].op \in Asks
<1>1. j = k - 4 \/ j = k - 3 \/ j = k - 2 \/ j = k - 1
  OBVIOUS
<1>2. j = k - 4 => k > 4
  OBVIOUS
<1>3. j = k - 3 => k > 3
  OBVIOUS
<1>4. j = k - 2 => k > 2
  OBVIOUS
<1>5. k > 1
  OBVIOUS
<1>6. QED
  BY <1>1, <1>2, <1>3, <1>4, <1>5 DEF SetsMode, Asks

(* What is left of a program when its first n steps go.                    *)
Later(s, r, n) ==
  /\ s \in Seq(AllSteps) /\ r \in Seq(AllSteps) /\ n \in 1 .. Len(s)
  /\ Len(r) = Len(s) - n /\ \A i \in 1 .. Len(r) : r[i] = s[i + n]

LEMMA SetsModeLater ==
  ASSUME NEW s, NEW r, NEW n, Later(s, r, n), NEW i \in 1 .. Len(r), NEW m, SetsMode(s, i + n, m)
  PROVE  SetsMode(r, i, m)
<1>1. n \in Nat /\ n >= 1 /\ i \in Nat /\ Len(r) \in Nat
  BY LenProperties DEF Later
<1>2. ASSUME NEW d \in 1 .. 4, i > d PROVE r[i - d] = s[(i + n) - d] /\ i + n > d
  <2>1. i - d \in 1 .. Len(r) /\ (i - d) + n = (i + n) - d /\ i + n > d
    BY <1>1, <1>2
  <2>2. QED
    BY <2>1 DEF Later
<1>3. 1 \in 1 .. 4 /\ 2 \in 1 .. 4 /\ 3 \in 1 .. 4 /\ 4 \in 1 .. 4
  OBVIOUS
<1>4. i > 4 => r[i - 4].op = "4F02" /\ r[i - 4].arg = m
  BY <1>2, <1>3 DEF SetsMode
<1>5. i > 3 => r[i - 3].op = "if 004F"
  BY <1>2, <1>3 DEF SetsMode
<1>6. i > 2 => r[i - 2].op = "4F01" /\ r[i - 2].arg = m
  BY <1>2, <1>3 DEF SetsMode
<1>7. i > 1 => r[i - 1].op = "if 004F"
  BY <1>2, <1>3 DEF SetsMode
<1>8. QED
  BY <1>4, <1>5, <1>6, <1>7 DEF SetsMode

(* When the last of the steps that go is none of the three, no function    *)
(* is cut in two.                                                          *)
LEMMA WholeLater ==
  ASSUME NEW s, NEW r, NEW n, Later(s, r, n), s[n].op \notin Asks,
         NEW k, NEW b, NEW c, NEW info, Ready(s, k, b, c, info)
  PROVE  Whole(r)
<1>1. ASSUME NEW i \in 1 .. Len(r), r[i].op = "framebuffer"
      PROVE  i > 4 /\ \E m \in Modes : SetsMode(r, i, m)
  <2>1. n \in Nat /\ 1 <= n /\ i \in Nat /\ i + n \in 1 .. Len(s) /\ i + n \in Nat /\ n < i + n
    BY LenProperties DEF Later
  <2>2. s[i + n].op = "framebuffer"
    BY <1>1 DEF Later
  <2>3. PICK m \in Modes : SetsMode(s, i + n, m)
    BY <2>1, <2>2 DEF Ready
  <2>4. ~ (n >= (i + n) - 4)
    BY <2>1, <2>3, AsksBefore
  <2>5. i > 4
    BY <2>1, <2>4
  <2>6. SetsMode(r, i, m)
    BY <2>3, SetsModeLater
  <2>7. QED
    BY <2>5, <2>6
<1>2. QED
  BY <1>1 DEF Whole, Later

LEMMA LaterTail ==
  ASSUME NEW s \in Seq(AllSteps), s # << >>
  PROVE  Later(s, Tail(s), 1) /\ s[1] = Head(s)
BY HeadTailProperties, LenProperties DEF Later

LEMMA WholeStill ==
  ASSUME NEW s \in Seq(AllSteps), s # << >>, Head(s).op \notin Asks \cup {"framebuffer"},
         NEW k, NEW b, NEW c, NEW info, Ready(s, k, b, c, info)
  PROVE  Whole(s)
<1>1. ASSUME NEW i \in 1 .. Len(s), s[i].op = "framebuffer"
      PROVE  i > 4 /\ \E m \in Modes : SetsMode(s, i, m)
  <2>1. PICK m \in Modes : SetsMode(s, i, m)
    BY <1>1 DEF Ready
  <2>2. i \in Nat /\ 1 \in Nat /\ 1 <= 1 /\ i # 1
    BY <1>1, LaterTail
  <2>3. ~ (1 < i /\ 1 >= i - 4)
    BY <2>1, <2>2, AsksBefore, LaterTail
  <2>4. i > 4
    BY <2>2, <2>3
  <2>5. QED
    BY <2>1, <2>4
<1>2. QED
  BY <1>1 DEF Whole

LEMMA WholeTail ==
  ASSUME NEW s \in Seq(AllSteps), s # << >>, Head(s).op \notin Asks,
         NEW k, NEW b, NEW c, NEW info, Ready(s, k, b, c, info)
  PROVE  Whole(Tail(s))
BY LaterTail, WholeLater

LEMMA FirstOf ==
  ASSUME NEW s, NEW i \in 2 .. 5, NEW m, SetsMode(s, i, m)
  PROVE  /\ i = 5 => s[1].op = "4F02" /\ s[1].arg = m
         /\ i = 4 => s[1].op = "if 004F"
         /\ i = 3 => s[1].op = "4F01" /\ s[1].arg = m
         /\ i = 2 => s[1].op = "if 004F"
<1>1. CASE i = 5
  <2>1. i > 4 /\ i - 4 = 1 /\ i # 4 /\ i # 3 /\ i # 2
    BY <1>1
  <2>2. QED
    BY <2>1 DEF SetsMode
<1>2. CASE i = 4
  <2>1. i > 3 /\ i - 3 = 1 /\ i # 5 /\ i # 3 /\ i # 2
    BY <1>2
  <2>2. QED
    BY <2>1 DEF SetsMode
<1>3. CASE i = 3
  <2>1. i > 2 /\ i - 2 = 1 /\ i # 5 /\ i # 4 /\ i # 2
    BY <1>3
  <2>2. QED
    BY <2>1 DEF SetsMode
<1>4. CASE i = 2
  <2>1. i > 1 /\ i - 1 = 1 /\ i # 5 /\ i # 4 /\ i # 3
    BY <1>4
  <2>2. QED
    BY <2>1 DEF SetsMode
<1>5. QED
  BY <1>1, <1>2, <1>3, <1>4

(* The state moves on within a step of the program, and to the next one.   *)
LEMMA ReadyStays ==
  ASSUME NEW s \in Seq(AllSteps), s # << >>, Head(s).op # "framebuffer",
         NEW k, NEW b, NEW c, NEW info, Ready(s, k, b, c, info),
         NEW k2, NEW b2, NEW c2, NEW info2,
         \A i \in 2 .. 5, m \in Modes :
           SetsMode(s, i, m) /\ Known(i, m, k, b, c, info) => Known(i, m, k2, b2, c2, info2)
  PROVE  Ready(s, k2, b2, c2, info2)
<1>1. ASSUME NEW i \in 1 .. Len(s), s[i].op = "framebuffer"
      PROVE  \E m \in Modes : SetsMode(s, i, m) /\ Known(i, m, k2, b2, c2, info2)
  <2>1. PICK m \in Modes : SetsMode(s, i, m) /\ Known(i, m, k, b, c, info)
    BY <1>1 DEF Ready
  <2>2. i # 1
    BY <1>1, LaterTail
  <2>3. i \in Int /\ (i \in 2 .. 5 \/ i > 5)
    BY <2>2, LenProperties
  <2>4. Known(i, m, k2, b2, c2, info2)
    BY <2>1, <2>3, KnownFar
  <2>5. QED
    BY <2>1, <2>4
<1>2. QED
  BY <1>1 DEF Ready

LEMMA ReadyNext ==
  ASSUME NEW s \in Seq(AllSteps), s # << >>, Head(s).op # "framebuffer",
         NEW k, NEW b, NEW c, NEW info, Ready(s, k, b, c, info),
         NEW b2, NEW c2, NEW info2,
         \A i \in 2 .. 5, m \in Modes :
           SetsMode(s, i, m) /\ Known(i, m, k, b, c, info) => Known(i - 1, m, 0, b2, c2, info2)
  PROVE  Ready(Tail(s), 0, b2, c2, info2)
<1>1. Later(s, Tail(s), 1)
  BY LaterTail
<1>2. ASSUME NEW j \in 1 .. Len(Tail(s)), Tail(s)[j].op = "framebuffer"
      PROVE  \E m \in Modes : SetsMode(Tail(s), j, m) /\ Known(j, m, 0, b2, c2, info2)
  <2>1. j + 1 \in 1 .. Len(s) /\ s[j + 1].op = "framebuffer"
    BY <1>1, <1>2, LenProperties DEF Later
  <2>2. PICK m \in Modes : SetsMode(s, j + 1, m) /\ Known(j + 1, m, k, b, c, info)
    BY <2>1 DEF Ready
  <2>3. SetsMode(Tail(s), j, m)
    BY <1>1, <2>2, SetsModeLater
  <2>4. j \in Int /\ (j + 1) - 1 = j /\ (j + 1 \in 2 .. 5 \/ j > 5 \/ j = 5)
    BY LenProperties
  <2>5. CASE j + 1 \in 2 .. 5
    <3>1. Known((j + 1) - 1, m, 0, b2, c2, info2)
      BY <2>2, <2>5
    <3>2. QED
      BY <2>3, <2>4, <3>1
  <2>6. CASE j > 5 \/ j = 5
    BY <2>3, <2>4, <2>6, KnownFar
  <2>7. QED
    BY <2>4, <2>5, <2>6
<1>3. QED
  BY <1>2 DEF Ready

LEMMA TwoToFive ==
  ASSUME NEW i \in 2 .. 5
  PROVE  (i = 2 \/ i = 3 \/ i = 4 \/ i = 5) /\ 5 - 1 = 4 /\ 4 - 1 = 3 /\ 3 - 1 = 2 /\ 2 - 1 = 1
OBVIOUS

LEMMA Places ==
  /\ 1 # 5 /\ 1 # 4 /\ 1 # 3 /\ 1 # 2 /\ 2 # 5 /\ 2 # 4 /\ 2 # 3 /\ 3 # 5 /\ 3 # 4 /\ 4 # 5
  /\ ~ (0 > CallAt)
BY DEF CallAt

LEMMA ReadyCheck ==
  ASSUME NEW s \in Seq(AllSteps), s # << >>, Head(s).op = "if 004F",
         NEW c, NEW info, Ready(s, 0, "004F", c, info)
  PROVE  Ready(Tail(s), 0, "004F", c, info)
<1>1. ASSUME NEW i \in 2 .. 5, NEW m \in Modes, SetsMode(s, i, m), Known(i, m, 0, "004F", c, info)
      PROVE  Known(i - 1, m, 0, "004F", c, info)
  <2>1. s[1].op = "if 004F"
    BY LaterTail
  <2>2. i = 2 \/ i = 4
    BY <1>1, <2>1, FirstOf, TwoToFive
  <2>3. CASE i = 2
    <3>1. i - 1 = 1 /\ c = m /\ info = m
      BY <1>1, <2>3, TwoToFive DEF Known
    <3>2. QED
      BY <3>1, Places DEF Known
  <2>4. CASE i = 4
    <3>1. i - 1 = 3 /\ c = m
      BY <1>1, <2>4, TwoToFive DEF Known
    <3>2. QED
      BY <3>1, Places DEF Known
  <2>5. QED
    BY <2>2, <2>3, <2>4
<1>2. Head(s).op # "framebuffer"
  OBVIOUS
<1>3. QED
  BY <1>1, <1>2, ReadyNext

LEMMA FunctionAsks ==
  ASSUME NEW s \in Seq(AllSteps), s # << >>, Head(s).op \in Functions,
         NEW i \in 2 .. 5, NEW m, SetsMode(s, i, m)
  PROVE  /\ i = 5 \/ i = 3
         /\ i = 5 => Head(s).op = "4F02" /\ Head(s).arg = m
         /\ i = 3 => Head(s).op = "4F01" /\ Head(s).arg = m
<1>1. s[1] = Head(s) /\ s[1].op # "if 004F"
  BY LaterTail DEF Functions
<1>2. i = 5 \/ i = 3
  BY <1>1, FirstOf, TwoToFive
<1>3. QED
  BY <1>1, <1>2, FirstOf

LEMMA ReadyBefore ==
  ASSUME NEW s \in Seq(AllSteps), s # << >>, Head(s).op \in Functions,
         NEW k \in 0 .. 14, NEW b, NEW c, NEW info, Ready(s, k, b, c, info)
  PROVE  Ready(s, k + 1, b, c, info)
<1>1. ~ (k + 1 > CallAt)
  BY DEF CallAt
<1>2. ASSUME NEW i \in 2 .. 5, NEW m \in Modes, SetsMode(s, i, m), Known(i, m, k, b, c, info)
      PROVE  Known(i, m, k + 1, b, c, info)
  BY <1>1, <1>2 DEF Known
<1>3. Head(s).op # "framebuffer"
  BY DEF Functions
<1>4. QED
  BY <1>2, <1>3, ReadyStays

(* The call itself: the card is in the mode asked for, or the block has    *)
(* its description, if the BIOS says so.                                   *)
LEMMA ReadyCall ==
  ASSUME NEW s \in Seq(AllSteps), s # << >>, Head(s).op \in Functions,
         NEW b, NEW c, NEW info, Ready(s, 15, b, c, info),
         NEW b2, NEW c2, NEW info2,
         Head(s).op = "4F02" /\ b2 = "004F" => c2 = Head(s).arg,
         Head(s).op = "4F01" => c2 = c /\ (b2 = "004F" => info2 = Head(s).arg)
  PROVE  Ready(s, 16, b2, c2, info2)
<1>1. ASSUME NEW i \in 2 .. 5, NEW m \in Modes, SetsMode(s, i, m), Known(i, m, 15, b, c, info)
      PROVE  Known(i, m, 16, b2, c2, info2)
  <2>1. CASE i = 5
    <3>1. Head(s).op = "4F02" /\ Head(s).arg = m
      BY <1>1, <2>1, FunctionAsks
    <3>2. b2 = "004F" => c2 = m
      BY <3>1
    <3>3. QED
      BY <2>1, <3>2, Places DEF Known
  <2>2. CASE i = 3
    <3>1. Head(s).op = "4F01" /\ Head(s).arg = m
      BY <1>1, <2>2, FunctionAsks
    <3>2. c = m
      BY <1>1, <2>2 DEF Known
    <3>3. c2 = m /\ (b2 = "004F" => info2 = m)
      BY <3>1, <3>2
    <3>4. QED
      BY <2>2, <3>3, Places DEF Known
  <2>3. QED
    BY <1>1, <2>1, <2>2, FunctionAsks
<1>2. Head(s).op # "framebuffer"
  BY DEF Functions
<1>3. QED
  BY <1>1, <1>2, ReadyStays

LEMMA ReadyAfter ==
  ASSUME NEW s \in Seq(AllSteps), s # << >>, Head(s).op \in Functions,
         NEW k \in 16 .. 23, NEW b, NEW c, NEW info, Ready(s, k, b, c, info)
  PROVE  Ready(s, k + 1, b, c, info)
<1>1. k > CallAt
  BY DEF CallAt
<1>2. ASSUME NEW i \in 2 .. 5, NEW m \in Modes, SetsMode(s, i, m), Known(i, m, k, b, c, info)
      PROVE  Known(i, m, k + 1, b, c, info)
  BY <1>1, <1>2 DEF Known
<1>3. Head(s).op # "framebuffer"
  BY DEF Functions
<1>4. QED
  BY <1>2, <1>3, ReadyStays

LEMMA ReadyDone ==
  ASSUME NEW s \in Seq(AllSteps), s # << >>, Head(s).op \in Functions,
         NEW b, NEW c, NEW info, Ready(s, 24, b, c, info)
  PROVE  Ready(Tail(s), 0, b, c, info)
<1>1. 24 > CallAt
  BY DEF CallAt
<1>2. ASSUME NEW i \in 2 .. 5, NEW m \in Modes, SetsMode(s, i, m), Known(i, m, 24, b, c, info)
      PROVE  Known(i - 1, m, 0, b, c, info)
  <2>1. CASE i = 5
    <3>1. i - 1 = 4
      BY <2>1
    <3>2. b = "004F" => c = m
      BY <1>1, <1>2, <2>1 DEF Known
    <3>3. QED
      BY <3>1, <3>2, Places DEF Known
  <2>2. CASE i = 3
    <3>1. i - 1 = 2
      BY <2>2
    <3>2. c = m /\ (b = "004F" => info = m)
      BY <1>1, <1>2, <2>2 DEF Known
    <3>3. QED
      BY <3>1, <3>2, Places DEF Known
  <2>3. QED
    BY <1>2, <2>1, <2>2, FunctionAsks
<1>3. Head(s).op # "framebuffer"
  BY DEF Functions
<1>4. QED
  BY <1>2, <1>3, ReadyNext

(* Where a function returns nothing is cut in two either; when nothing     *)
(* returns the program stays as it is.                                     *)
LEMMA ReadyReturn ==
  ASSUME NEW s \in Seq(AllSteps), NEW b, NEW c, NEW info, Ready(s, 0, b, c, info)
  PROVE  Ready(SubSeq(s, SelectInSeq(s, LAMBDA x : x.op = "return") + 1, Len(s)), 0, b, c, info)
<1> DEFINE I == {i \in 1 .. Len(s) : s[i].op = "return"}
           n == SelectInSeq(s, LAMBDA x : x.op = "return")
           r == SubSeq(s, n + 1, Len(s))
<1>1. Len(s) \in Nat
  BY LenProperties
<1>2. n = IF I # {} THEN Min(I) ELSE 0
  BY DEF SelectInSeq
<1>a. I \subseteq Nat
  BY <1>1
<1> HIDE DEF I
<1>3. I # {} => Min(I) \in I
  BY <1>a, LeastOf
<1> USE DEF I
<1>4. n = 0 \/ (n \in 1 .. Len(s) /\ s[n].op = "return")
  BY <1>2, <1>3
<1> HIDE DEF n
<1>5. CASE n = 0
  <2>1. r = s
    BY <1>5, SubSeqFull
  <2>2. QED
    BY <2>1 DEF n
<1>6. CASE n \in 1 .. Len(s) /\ s[n].op = "return"
  <2>1. \A i \in n + 1 .. Len(s) : s[i] \in AllSteps
    BY <1>1, <1>6, ElementOfSeq
  <2>2. /\ r \in Seq(AllSteps) /\ Len(r) = Len(s) - n
        /\ \A i \in 1 .. Len(r) : r[i] = s[i + n]
    BY <1>1, <1>6, <2>1, SubSeqProperties
  <2>3. Later(s, r, n)
    BY <1>6, <2>2 DEF Later
  <2>4. s[n].op \notin Asks
    BY <1>6 DEF Asks
  <2> HIDE DEF r
  <2>5. Whole(r)
    BY <2>3, <2>4, WholeLater
  <2>6. Ready(r, 0, b, c, info)
    BY <2>5, WholeIsReady
  <2>7. QED
    BY <2>6 DEF r, n
<1>7. QED
  BY <1>4, <1>5, <1>6

-----------------------------------------------------------------------------
(* The invariant of the screen *)

Calling == pc > 0 => todo # << >> /\ Step.op \in Functions
SetFirst == Ready(todo, pc, bios, card, mode_info)
OnScreen ==
  /\ DOMAIN t = Cursor /\ t.col \in Nat
  /\ settled => card \in Modes /\ mode_info = card /\ drawn
  /\ fitted => settled /\ Fits(t, Mode[card])
JInv == IInv /\ Calling /\ SetFirst /\ OnScreen

LEMMA IsDrawable == Drawable
BY VideoAssumption, BootAssumption DEF Drawable, Shown

LEMMA TodoIsSteps == IInv => todo \in Seq(AllSteps) /\ pc \in 0 .. 24
<1>1. ASSUME NEW k \in 1 .. 10, Booting(k) PROVE todo \in Seq(AllSteps) /\ pc \in 0 .. 24
  <2>1. /\ _start \in Seq(AllSteps) /\ Len(_start) >= 10 /\ Len(_start) \in Nat
    BY StartBegins, LenProperties DEF Begins
  <2>2. \A i \in k .. Len(_start) : _start[i] \in AllSteps
    BY <2>1, ElementOfSeq
  <2>3. SubSeq(_start, k, Len(_start)) \in Seq(AllSteps)
    BY <2>1, <2>2, SubSeqProperties
  <2>4. QED
    BY <1>1, <2>3 DEF Booting
<1>2. ASSUME Lost PROVE todo \in Seq(AllSteps) /\ pc \in 0 .. 24
  <2>1. todo \in Seq(LateSteps) /\ pc = 0
    BY <1>2, LostIsLate DEF Lost
  <2>2. QED
    BY <2>1, LateIsAny, SeqMonotonic
<1>3. Running => todo \in Seq(AllSteps) /\ pc \in 0 .. 24
  BY LateIsAny, SeqMonotonic DEF Running
<1>4. QED
  BY <1>1, <1>2, <1>3 DEF IInv

LEMMA InitOnScreen == Init => Calling /\ SetFirst /\ OnScreen
<1> SUFFICES ASSUME Init PROVE Calling /\ SetFirst /\ OnScreen
  OBVIOUS
<1>1. todo = _start /\ pc = 0
  BY DEF Init
<1>2. Ready(_start, 0, bios, card, mode_info)
  BY WholeStart, WholeIsReady
<1>3. PICK c : c = [font |-> [width |-> 0, height |-> 0], col |-> 0, row |-> 0, max_col |-> 0, max_row |-> 0]
  OBVIOUS
<1>4. DOMAIN c = Cursor /\ c.col = 0
  BY <1>3 DEF Cursor
<1>5. t = c /\ settled = FALSE /\ fitted = FALSE
  BY <1>3 DEF Init
<1>6. QED
  BY <1>1, <1>2, <1>4, <1>5 DEF Calling, SetFirst, OnScreen

-----------------------------------------------------------------------------
(* The steps of the program *)

(* A step puts whole functions in front of what follows.                   *)
LEMMA PutReady ==
  ASSUME todo \in Seq(AllSteps), SetFirst, todo # << >>, Step.op \notin Asks, NEW more, Whole(more)
  PROVE  /\ \A b, c, info : Ready(more \o Tail(todo), 0, b, c, info)
         /\ Step.op # "framebuffer" => \A b, c, info : Ready(more \o todo, 0, b, c, info)
<1>1. Whole(Tail(todo)) /\ (Step.op # "framebuffer" => Whole(todo))
  BY WholeTail, WholeStill DEF SetFirst, Step
<1>2. QED
  BY <1>1, WholeJoin, WholeIsReady

LEMMA NoSteps == Whole(<< >>)
<1>1. "" \in Args
  BY DEF Args
<1>2. "lost" \in LateOps \ {"framebuffer"}
  BY DEF LateOps
<1>3. QED
  BY <1>1, <1>2, Other, WholeTuples

LEMMA LostIsReady == ASSUME NEW b, NEW c, NEW info PROVE Ready(<<Do("lost", "")>>, 0, b, c, info)
<1>1. "" \in Args
  BY DEF Args
<1>2. "lost" \in LateOps \ {"framebuffer"}
  BY DEF LateOps
<1>3. PICK a : a = Do("lost", "")
  OBVIOUS
<1>4. a \in AllSteps /\ a.op # "framebuffer"
  BY <1>1, <1>2, <1>3, Other
<1>5. QED
  BY <1>3, <1>4, WholeTuples, WholeIsReady

LEMMA ThenNothing ==
  ASSUME todo \in Seq(AllSteps), todo # << >>
  PROVE  << >> \o Tail(todo) = Tail(todo)
BY HeadTailProperties, ConcatEmptySeq

(* A step that asks the BIOS nothing: what it leaves to do, its own steps  *)
(* and what followed, or nothing but what follows a return.                *)
LEMMA Puts ==
  ASSUME IInv, SetFirst, todo # << >>, pc = 0, pc' = pc, UNCHANGED <<bios, card, mode_info>>,
         Step.op \notin Asks,
         \/ \E more : Whole(more) /\ Then(more)
         \/ Lose
         \/ Return
         \/ todo' = todo
  PROVE  Calling' /\ SetFirst'
<1>1. todo \in Seq(AllSteps)
  BY TodoIsSteps
<1>2. Ready(todo', 0, bios, card, mode_info)
  <2>1. ASSUME NEW more, Whole(more), Then(more) PROVE Ready(todo', 0, bios, card, mode_info)
    BY <1>1, <2>1, PutReady DEF Then
  <2>2. CASE Lose
    BY <2>2, LostIsReady DEF Lose
  <2>3. CASE Return
    BY <1>1, <2>3, ReadyReturn DEF Return, SetFirst
  <2>4. CASE todo' = todo
    BY <2>4 DEF SetFirst
  <2>5. QED
    BY <2>1, <2>2, <2>3, <2>4
<1>3. ~ (0 > 0)
  OBVIOUS
<1>4. QED
  BY <1>2, <1>3 DEF SetFirst, Calling

LEMMA ThenEmpty == Then(<< >>) => \E more : Whole(more) /\ Then(more)
BY NoSteps

LEMMA Quiet ==
  ASSUME Calling, SetFirst, UNCHANGED <<todo, pc, bios, card, mode_info>>
  PROVE  Calling' /\ SetFirst'
BY DEF Calling, SetFirst, Step

LEMMA PlainReady == IInv /\ SetFirst /\ Plain => Calling' /\ SetFirst'
<1> SUFFICES ASSUME IInv, SetFirst, Plain PROVE Calling' /\ SetFirst'
  OBVIOUS
<1>1. /\ todo # << >> /\ pc = 0 /\ Step.op \in Elsewhere /\ Then(<< >>)
      /\ pc' = pc /\ UNCHANGED <<bios, card, mode_info>>
  BY DEF Plain, machine, screen
<1>2. Step.op \notin Asks
  BY <1>1 DEF Elsewhere, Asks
<1>3. QED
  BY <1>1, <1>2, ThenEmpty, Puts

(* The steps that do something here.                                       *)
Own == {"set PG", "init_gdt", "idt_init", "load_multiboot_mods", "pci_find_device", "ide_init", "command",
        "clear", "wait", "test_filesystem", "draw_background", "halt", "framebuffer"}

LEMMA OwnAsksNothing == \A op \in Own : op \notin Asks
BY DEF Own, Asks

LEMMA OwnReady ==
  ASSUME IInv, SetFirst, NEW op \in Own, At(op), pc' = pc, UNCHANGED <<bios, card, mode_info>>,
         Then(<< >>) \/ (\E more : Whole(more) /\ Then(more)) \/ Lose \/ Return \/ todo' = todo
  PROVE  Calling' /\ SetFirst'
BY ThenEmpty, OwnAsksNothing, Puts DEF At

LEMMA StartReady ==
  IInv /\ SetFirst /\ (Processor \/ load_multiboot_mods \/ pci_find_device \/ ide_init \/ Halt)
    => Calling' /\ SetFirst'
<1> SUFFICES ASSUME IInv, SetFirst PROVE
      Processor \/ load_multiboot_mods \/ pci_find_device \/ ide_init \/ Halt => Calling' /\ SetFirst'
  OBVIOUS
<1>1. /\ "set PG" \in Own /\ "init_gdt" \in Own /\ "idt_init" \in Own /\ "load_multiboot_mods" \in Own
      /\ "pci_find_device" \in Own /\ "ide_init" \in Own /\ "halt" \in Own
  BY DEF Own
<1>2. CASE Processor
  <2>1. /\ At("set PG") \/ At("init_gdt") \/ At("idt_init")
        /\ Then(<< >>) /\ pc' = pc /\ UNCHANGED <<bios, card, mode_info>>
    BY <1>2 DEF Processor, screen
  <2>2. QED
    BY <1>1, <2>1, OwnReady
<1>3. CASE load_multiboot_mods
  <2>1. /\ At("load_multiboot_mods") /\ (Then(<< >>) \/ Lose)
        /\ pc' = pc /\ UNCHANGED <<bios, card, mode_info>>
    BY <1>3 DEF load_multiboot_mods, machine, screen
  <2>2. QED
    BY <1>1, <2>1, OwnReady
<1>4. CASE pci_find_device
  <2>1. /\ At("pci_find_device") /\ (Then(<< >>) \/ todo' = todo)
        /\ pc' = pc /\ UNCHANGED <<bios, card, mode_info>>
    BY <1>4 DEF pci_find_device, machine, screen
  <2>2. QED
    BY <1>1, <2>1, OwnReady
<1>5. CASE ide_init
  <2>1. At("ide_init") /\ Then(<< >>) /\ pc' = pc /\ UNCHANGED <<bios, card, mode_info>>
    BY <1>5 DEF ide_init, machine, screen
  <2>2. QED
    BY <1>1, <2>1, OwnReady
<1>6. CASE Halt
  <2>1. At("halt") /\ Then(<< >>) /\ pc' = pc /\ UNCHANGED <<bios, card, mode_info>>
    BY <1>6 DEF Halt, screen
  <2>2. QED
    BY <1>1, <2>1, OwnReady
<1>7. QED
  BY <1>2, <1>3, <1>4, <1>5, <1>6

LEMMA DiskReady == IInv /\ SetFirst /\ (Command \/ ClearFlag \/ Wait \/ test_filesystem) => Calling' /\ SetFirst'
<1> SUFFICES ASSUME IInv, SetFirst PROVE Command \/ ClearFlag \/ Wait \/ test_filesystem => Calling' /\ SetFirst'
  OBVIOUS
<1>1. "command" \in Own /\ "clear" \in Own /\ "wait" \in Own /\ "test_filesystem" \in Own
  BY DEF Own
<1>2. CASE Command
  <2>1. At("command") /\ (Then(<< >>) \/ Lose) /\ pc' = pc /\ UNCHANGED <<bios, card, mode_info>>
    BY <1>2 DEF Command, machine, screen
  <2>2. QED
    BY <1>1, <2>1, OwnReady
<1>3. CASE ClearFlag
  <2>1. At("clear") /\ Then(<< >>) /\ pc' = pc /\ UNCHANGED <<bios, card, mode_info>>
    BY <1>3 DEF ClearFlag, machine, screen
  <2>2. QED
    BY <1>1, <2>1, OwnReady
<1>4. CASE Wait
  <2>1. Whole(read_sectors("unreadable"))
    BY WholeRead
  <2>2. /\ At("wait") /\ pc' = pc /\ UNCHANGED <<bios, card, mode_info>>
        /\ Then(<< >>) \/ Return \/ Then(read_sectors("unreadable"))
    BY <1>4 DEF Wait, machine, screen, Then
  <2>3. QED
    BY <1>1, <2>1, <2>2, OwnReady
<1>5. CASE test_filesystem
  <2>1. Whole(read_sectors("root")) /\ Whole(read_sectors("usr")) /\ Whole(read_sectors("lib"))
    BY WholeRead
  <2>2. PICK all : all = read_sectors("root") \o read_sectors("usr") \o read_sectors("lib") \o Returned
    OBVIOUS
  <2>3. Whole(all)
    BY <2>1, <2>2, WholeReturned, WholeJoin
  <2>4. /\ At("test_filesystem") /\ pc' = pc /\ UNCHANGED <<bios, card, mode_info>>
        /\ Then(all) \/ Then(<< >>)
    BY <1>5, <2>2 DEF test_filesystem, machine, screen
  <2>5. QED
    BY <1>1, <2>3, <2>4, OwnReady
<1>6. QED
  BY <1>2, <1>3, <1>4, <1>5

LEMMA ScreenReady == IInv /\ SetFirst /\ (ModeIsSet \/ draw_background) => Calling' /\ SetFirst'
<1> SUFFICES ASSUME IInv, SetFirst PROVE ModeIsSet \/ draw_background => Calling' /\ SetFirst'
  OBVIOUS
<1>1. "framebuffer" \in Own /\ "draw_background" \in Own
  BY DEF Own
<1>2. CASE ModeIsSet
  <2>1. At("framebuffer") /\ Then(<< >>) /\ pc' = pc /\ UNCHANGED <<bios, card, mode_info>>
    BY <1>2 DEF ModeIsSet, machine
  <2>2. QED
    BY <1>1, <2>1, OwnReady
<1>3. CASE draw_background
  <2>1. /\ At("draw_background") /\ (Then(<< >>) \/ Lose)
        /\ pc' = pc /\ UNCHANGED <<bios, card, mode_info>>
    BY <1>3 DEF draw_background, machine, screen, Write
  <2>2. QED
    BY <1>1, <2>1, OwnReady
<1>4. QED
  BY <1>2, <1>3

LEMMA CheckReady == IInv /\ SetFirst /\ Check => Calling' /\ SetFirst'
<1> SUFFICES ASSUME IInv, SetFirst, Check PROVE Calling' /\ SetFirst'
  OBVIOUS
<1>1. /\ todo # << >> /\ pc = 0 /\ Step.op = "if 004F" /\ pc' = pc /\ UNCHANGED <<bios, card, mode_info>>
      /\ (bios = "004F" /\ Then(<< >>)) \/ Return
  BY DEF Check, At, machine, screen
<1>2. todo \in Seq(AllSteps)
  BY TodoIsSteps
<1>3. Ready(todo, 0, bios, card, mode_info)
  BY <1>1 DEF SetFirst
<1>4. Ready(todo', 0, bios, card, mode_info)
  <2>1. CASE bios = "004F" /\ Then(<< >>)
    <3>1. todo' = Tail(todo)
      BY <1>1, <1>2, <2>1, ThenNothing DEF Then
    <3>2. Ready(Tail(todo), 0, "004F", card, mode_info)
      BY <1>1, <1>2, <1>3, <2>1, ReadyCheck DEF Step
    <3>3. QED
      BY <2>1, <3>1, <3>2
  <2>2. CASE Return
    BY <1>2, <1>3, <2>2, ReadyReturn DEF Return
  <2>3. QED
    BY <1>1, <2>1, <2>2
<1>5. ~ (0 > 0)
  OBVIOUS
<1>6. QED
  BY <1>1, <1>4, <1>5 DEF SetFirst, Calling

LEMMA UseReady == IInv /\ SetFirst /\ ModeCall => Calling' /\ SetFirst'
<1> SUFFICES ASSUME IInv, SetFirst, ModeCall PROVE Calling' /\ SetFirst'
  OBVIOUS
<1>1. PICK steps : Whole(steps) /\ Use(steps)
  <2>1. \A m \in Modes : Whole(vbe_set_mode(m)) /\ Whole(vbe_get_mode_info(m))
    BY WholeSetMode, WholeModeInfo
  <2>2. Whole(vbe_set_mode2) /\ Whole(vbe_list_supported_modes) /\ Whole(vbe_set_text_mode)
    BY WholeSetMode2, WholeList, WholeTextMode
  <2>3. QED
    BY <2>1, <2>2 DEF ModeCall
<1>2. /\ todo # << >> /\ pc = 0 /\ Step.op = "halt" /\ todo' = steps \o todo
      /\ pc' = pc /\ UNCHANGED <<bios, card, mode_info>>
  BY <1>1 DEF Use, At, machine, screen
<1>3. todo \in Seq(AllSteps)
  BY TodoIsSteps
<1>4. Step.op \notin Asks /\ Step.op # "framebuffer"
  BY <1>2 DEF Asks
<1>5. Ready(steps \o todo, 0, bios, card, mode_info)
  BY <1>1, <1>2, <1>3, <1>4, PutReady
<1>6. ~ (0 > 0)
  OBVIOUS
<1>7. QED
  BY <1>2, <1>5, <1>6 DEF SetFirst, Calling

LEMMA CallReady == IInv /\ SetFirst /\ vbe_bios_call => Calling' /\ SetFirst'
<1> SUFFICES ASSUME IInv, SetFirst, vbe_bios_call PROVE Calling' /\ SetFirst'
  OBVIOUS
<1>1. /\ todo # << >> /\ pc = 0 /\ Step.op \in Functions
      /\ (pc' = 1 /\ todo' = todo) \/ (pc' = pc /\ Lose)
      /\ UNCHANGED <<bios, card, mode_info>>
  BY DEF vbe_bios_call, screen
<1>2. todo \in Seq(AllSteps)
  BY TodoIsSteps
<1>3. CASE pc' = 1 /\ todo' = todo
  <2>1. Ready(todo, 0, bios, card, mode_info)
    BY <1>1 DEF SetFirst
  <2>2. 0 \in 0 .. 14 /\ 0 + 1 = 1
    OBVIOUS
  <2>3. Ready(todo, 0 + 1, bios, card, mode_info)
    BY <1>1, <1>2, <2>1, <2>2, ReadyBefore DEF Step
  <2>4. SetFirst'
    BY <1>1, <1>3, <2>2, <2>3 DEF SetFirst
  <2>5. Calling'
    BY <1>1, <1>3 DEF Calling, Step
  <2>6. QED
    BY <2>4, <2>5
<1>4. CASE pc' = pc /\ Lose
  <2>1. Ready(todo', 0, bios, card, mode_info)
    BY <1>4, LostIsReady DEF Lose
  <2>2. ~ (0 > 0)
    OBVIOUS
  <2>3. QED
    BY <1>1, <1>4, <2>1, <2>2 DEF SetFirst, Calling
<1>5. QED
  BY <1>1, <1>3, <1>4

LEMMA CallPlace ==
  ASSUME NEW k \in 1 .. 24
  PROVE  Len(Routine) = 24 /\ (Routine[k] = "call" <=> k = 15)
<1>1. Len(Routine) = 24
  BY DEF Routine
<1>2. Routine[15] = "call"
  BY DEF Routine
<1>3. /\ Routine[1] # "call" /\ Routine[2] # "call" /\ Routine[3] # "call" /\ Routine[4] # "call"
      /\ Routine[5] # "call" /\ Routine[6] # "call" /\ Routine[7] # "call" /\ Routine[8] # "call"
  BY DEF Routine
<1>4. /\ Routine[9] # "call" /\ Routine[10] # "call" /\ Routine[11] # "call"
      /\ Routine[12] # "call" /\ Routine[13] # "call" /\ Routine[14] # "call"
  BY DEF Routine
<1>5. /\ Routine[16] # "call" /\ Routine[17] # "call" /\ Routine[18] # "call"
      /\ Routine[19] # "call" /\ Routine[20] # "call" /\ Routine[21] # "call"
      /\ Routine[22] # "call" /\ Routine[23] # "call" /\ Routine[24] # "call"
  BY DEF Routine
<1>6. k = 15 \/ k \in 1 .. 8 \/ k \in 9 .. 14 \/ k \in 16 .. 24
  OBVIOUS
<1>7. \A l \in 1 .. 8 : l = 1 \/ l = 2 \/ l = 3 \/ l = 4 \/ l = 5 \/ l = 6 \/ l = 7 \/ l = 8
  OBVIOUS
<1>8. \A l \in 9 .. 14 : l = 9 \/ l = 10 \/ l = 11 \/ l = 12 \/ l = 13 \/ l = 14
  OBVIOUS
<1>9. \A l \in 16 .. 24 : l = 16 \/ l = 17 \/ l = 18 \/ l = 19 \/ l = 20 \/ l = 21 \/ l = 22 \/ l = 23 \/ l = 24
  OBVIOUS
<1>10. ~ (15 \in 1 .. 8) /\ ~ (15 \in 9 .. 14) /\ ~ (15 \in 16 .. 24)
  OBVIOUS
<1>11. k \in 1 .. 8 => Routine[k] # "call"
  BY <1>3, <1>7
<1>12. k \in 9 .. 14 => Routine[k] # "call"
  BY <1>4, <1>8
<1>13. k \in 16 .. 24 => Routine[k] # "call"
  BY <1>5, <1>9
<1>14. QED
  BY <1>1, <1>2, <1>6, <1>10, <1>11, <1>12, <1>13

LEMMA InstructionReady == IInv /\ Calling /\ SetFirst /\ Instruction => Calling' /\ SetFirst'
<1> SUFFICES ASSUME IInv, Calling, SetFirst, Instruction PROVE Calling' /\ SetFirst'
  OBVIOUS
<1>1. /\ pc > 0 /\ IF pc < Len(Routine) THEN pc' = pc + 1 /\ todo' = todo ELSE pc' = 0 /\ Then(<< >>)
      /\ IF Routine[pc] = "call" THEN Call ELSE UNCHANGED <<bios, card, mode_info>>
  BY DEF Instruction
<1>2. todo \in Seq(AllSteps) /\ pc \in 1 .. 24
  BY <1>1, TodoIsSteps
<1>3. todo # << >> /\ Head(todo).op \in Functions
  BY <1>1 DEF Calling, Step
<1>4. Ready(todo, pc, bios, card, mode_info)
  BY DEF SetFirst
<1>a. Len(Routine) = 24 /\ (Routine[pc] = "call" <=> pc = 15)
  BY <1>2, CallPlace
<1>5. CASE pc \in 1 .. 14 \/ pc \in 16 .. 23
  <2>1. pc' = pc + 1 /\ todo' = todo /\ UNCHANGED <<bios, card, mode_info>> /\ (pc \in 0 .. 14 \/ pc \in 16 .. 23)
    <3>1. pc < Len(Routine) /\ Routine[pc] # "call"
      BY <1>5, <1>a
    <3>2. pc \in 0 .. 14 \/ pc \in 16 .. 23
      BY <1>5
    <3>3. QED
      BY <1>1, <3>1, <3>2
  <2>2. Ready(todo, pc + 1, bios, card, mode_info)
    BY <1>2, <1>3, <1>4, <2>1, ReadyBefore, ReadyAfter
  <2>3. SetFirst'
    BY <2>1, <2>2 DEF SetFirst
  <2>4. Calling'
    BY <1>3, <2>1 DEF Calling, Step
  <2>5. QED
    BY <2>3, <2>4
<1>6. CASE pc = 15
  <2>1. pc' = 16 /\ todo' = todo /\ Call
    <3>1. pc < Len(Routine) /\ Routine[pc] = "call" /\ pc + 1 = 16
      BY <1>6, <1>a
    <3>2. QED
      BY <1>1, <3>1
  <2>2. Ready(todo, 15, bios, card, mode_info)
    BY <1>4, <1>6
  <2>3. Step.op = "4F02" /\ bios' = "004F" => card' = Step.arg
    BY <2>1 DEF Call
  <2>4. Step.op = "4F01" => card' = card /\ (bios' = "004F" => mode_info' = Step.arg)
    BY <2>1 DEF Call
  <2>5. Ready(todo, 16, bios', card', mode_info')
    BY <1>2, <1>3, <2>2, <2>3, <2>4, ReadyCall DEF Step
  <2>6. SetFirst'
    BY <2>1, <2>5 DEF SetFirst
  <2>7. Calling'
    BY <1>3, <2>1 DEF Calling, Step
  <2>8. QED
    BY <2>6, <2>7
<1>7. CASE pc = 24
  <2>1. pc' = 0 /\ Then(<< >>) /\ UNCHANGED <<bios, card, mode_info>>
    <3>1. ~ (pc < Len(Routine)) /\ Routine[pc] # "call"
      BY <1>7, <1>a
    <3>2. QED
      BY <1>1, <3>1
  <2>2. todo' = Tail(todo)
    BY <1>2, <1>3, <2>1, ThenNothing DEF Then
  <2>3. Ready(todo, 24, bios, card, mode_info)
    BY <1>4, <1>7
  <2>4. Ready(Tail(todo), 0, bios, card, mode_info)
    BY <1>2, <1>3, <2>3, ReadyDone
  <2>5. ~ (0 > 0)
    OBVIOUS
  <2>6. QED
    BY <2>1, <2>2, <2>4, <2>5 DEF SetFirst, Calling
<1>8. QED
  BY <1>2, <1>5, <1>6, <1>7

-----------------------------------------------------------------------------
(* The steps on the screen *)

LEMMA SameScreen == OnScreen /\ UNCHANGED screen => OnScreen'
BY DEF OnScreen, screen

(* A call that may set a mode, or a description, forgets what was settled. *)
LEMMA InstructionScreen == OnScreen /\ Instruction => OnScreen'
<1> SUFFICES ASSUME OnScreen, Instruction PROVE OnScreen'
  OBVIOUS
<1>1. t' = t /\ (Call \/ UNCHANGED <<card, mode_info, settled, fitted, drawn>>)
  BY DEF Instruction
<1>2. CASE UNCHANGED <<card, mode_info, settled, fitted, drawn>>
  BY <1>1, <1>2 DEF OnScreen
<1>3. CASE Call
  <2>1. CASE Step.op \in {"4F02", "0003", "4F01"}
    <3>1. settled' = FALSE /\ fitted' = FALSE
      BY <1>3, <2>1 DEF Call
    <3>2. QED
      BY <1>1, <3>1 DEF OnScreen
  <2>2. CASE Step.op \notin {"4F02", "0003", "4F01"}
    <3>1. UNCHANGED <<settled, fitted, drawn>>
      BY <1>3, <2>2 DEF Call
    <3>2. card' = card /\ mode_info' = mode_info
      BY <1>3, <2>2 DEF Call
    <3>3. QED
      BY <1>1, <3>1, <3>2 DEF OnScreen
  <2>3. QED
    BY <2>1, <2>2
<1>4. QED
  BY <1>1, <1>2, <1>3

(* The end of vbe_set_mode: the two calls before it said yes.              *)
LEMMA SetScreen == IInv /\ SetFirst /\ OnScreen /\ ModeIsSet => OnScreen'
<1> SUFFICES ASSUME IInv, SetFirst, OnScreen, ModeIsSet PROVE OnScreen'
  OBVIOUS
<1>1. /\ todo # << >> /\ Head(todo).op = "framebuffer"
      /\ drawn' = TRUE /\ fitted' = FALSE /\ UNCHANGED <<card, mode_info, t>>
  BY DEF ModeIsSet, At, Step
<1>2. todo \in Seq(AllSteps)
  BY TodoIsSteps
<1>3. 1 \in 1 .. Len(todo) /\ todo[1].op = "framebuffer"
  BY <1>1, <1>2, LaterTail, LenProperties DEF Later
<1>4. PICK m \in Modes : Known(1, m, pc, bios, card, mode_info)
  BY <1>3 DEF SetFirst, Ready
<1>5. card = m /\ mode_info = m
  BY <1>4 DEF Known
<1>6. QED
  BY <1>1, <1>4, <1>5 DEF OnScreen

LEMMA DescribedIs ==
  ASSUME OnScreen, settled, NEW i \in Described
  PROVE  card \in Modes /\ i = Mode[card]
BY DEF OnScreen, Described

LEMMA WriteScreen ==
  ASSUME OnScreen, NEW writes, Write(writes), t' = t, settled => Inside(writes, card)
  PROVE  OnScreen'
<1>1. drawn' = (settled => Inside(writes, card)) /\ UNCHANGED <<card, mode_info, settled, fitted>>
  BY DEF Write
<1>2. QED
  BY <1>1 DEF OnScreen

LEMMA BackgroundScreen == OnScreen /\ draw_background => OnScreen'
<1> SUFFICES ASSUME OnScreen, draw_background PROVE OnScreen'
  OBVIOUS
<1>1. CASE UNCHANGED screen
  BY <1>1, SameScreen
<1>2. ASSUME NEW p \in Pictures, NEW i \in Described, Write(display_image(i, p[1], p[2])), t' = t
      PROVE  OnScreen'
  <2>1. settled => Inside(display_image(i, p[1], p[2]), card)
    BY DescribedIs, PicturesIn, IsDrawable
  <2>2. QED
    BY <1>2, <2>1, WriteScreen
<1>3. QED
  BY <1>1, <1>2 DEF draw_background

LEMMA FontScreen ==
  ASSUME OnScreen, NEW i \in Described, NEW font \in Fonts, NEW new, new = vbe_load_font(t, i, font),
         t' = new, UNCHANGED <<card, mode_info, drawn, settled>>,
         fitted' = (settled /\ i.bpp >= 24 /\ t.col < new.max_col /\ t.row \in 0 .. new.max_row - 1)
  PROVE  OnScreen'
<1>1. DOMAIN t = Cursor /\ t.col \in Nat
  BY DEF OnScreen
<1>2. DOMAIN new = Cursor /\ new.col \in Nat
  BY <1>1, ColumnStays
<1>3. settled' => card' \in Modes /\ mode_info' = card' /\ drawn'
  BY DEF OnScreen
<1>4. ASSUME fitted' PROVE settled' /\ Fits(t', Mode[card'])
  <2>1. settled /\ i.bpp >= 24 /\ t.col < new.max_col /\ t.row \in 0 .. new.max_row - 1
    BY <1>4
  <2>2. card \in Modes /\ i = Mode[card]
    BY <2>1, DescribedIs
  <2>3. Shown(i) /\ Drawable
    BY <2>2, IsDrawable DEF Drawable
  <2>4. Fits(new, i)
    BY <1>1, <2>1, <2>3, FontFits
  <2>5. QED
    BY <2>1, <2>2, <2>4
<1>5. QED
  BY <1>2, <1>3, <1>4 DEF OnScreen

LEMMA PutScreen ==
  ASSUME OnScreen, NEW i \in Described, NEW c \in {"glyph", "missing", "newline", "return"},
         NEW put, put = vbe_putchar(t, i, c),
         t' = put.at, drawn' = (fitted => Inside(put.writes, card)),
         UNCHANGED <<card, mode_info, settled, fitted>>
  PROVE  OnScreen'
<1>1. DOMAIN t = Cursor /\ t.col \in Nat
  BY DEF OnScreen
<1>2. DOMAIN t' = Cursor /\ t'.col \in Nat
  BY <1>1, ColumnStays
<1>3. ASSUME fitted PROVE settled /\ Fits(t', Mode[card]) /\ Inside(put.writes, card)
  <2>1. settled /\ card \in Modes /\ i = Mode[card] /\ Fits(t, Mode[card])
    BY <1>3, DescribedIs DEF OnScreen
  <2>2. QED
    BY <2>1, IsDrawable, PutFits
<1>4. drawn'
  BY <1>3
<1>5. QED
  BY <1>2, <1>3, <1>4 DEF OnScreen

LEMMA DrawScreen == OnScreen /\ DrawCall => OnScreen'
<1> SUFFICES ASSUME OnScreen, DrawCall PROVE OnScreen'
  OBVIOUS
<1>1. PICK i \in Described : Draw(i)
  BY DEF DrawCall
<1>2. CASE Write(vbe_clear_screen(i)) /\ t' = t
  <2>1. settled => Inside(vbe_clear_screen(i), card)
    BY DescribedIs, PicturesIn, IsDrawable
  <2>2. QED
    BY <1>2, <2>1, WriteScreen
<1>3. ASSUME NEW x \in 0 .. i.width, NEW y \in 0 .. i.height, Write(vbe_draw_pixel(i, x, y)), t' = t
      PROVE  OnScreen'
  <2>1. x \in Nat /\ y \in Nat
    OBVIOUS
  <2>2. settled => Inside(vbe_draw_pixel(i, x, y), card)
    BY <2>1, DescribedIs, PicturesIn, IsDrawable
  <2>3. QED
    BY <1>3, <2>2, WriteScreen
<1>4. QED
  BY <1>1, <1>2, <1>3, FontScreen, PutScreen DEF Draw

-----------------------------------------------------------------------------
LEMMA NextOnScreen == JInv /\ [Next]_vars => JInv'
<1> SUFFICES ASSUME JInv, [Next]_vars PROVE JInv'
  OBVIOUS
<1>1. IInv /\ Calling /\ SetFirst /\ OnScreen
  BY DEF JInv
<1>2. IInv'
  BY <1>1, NextIsInv
<1>3. CASE Program
  <2>1. Calling' /\ SetFirst'
    BY <1>1, <1>3, PlainReady, StartReady, DiskReady, ScreenReady, CheckReady, CallReady, InstructionReady
       DEF Program
  <2>2. OnScreen'
    <3>1. CASE Instruction
      BY <1>1, <3>1, InstructionScreen
    <3>2. CASE ModeIsSet
      BY <1>1, <3>2, SetScreen
    <3>3. CASE draw_background
      BY <1>1, <3>3, BackgroundScreen
    <3>4. CASE Plain \/ Processor \/ load_multiboot_mods \/ pci_find_device \/ ide_init
      BY <1>1, <3>4, SameScreen DEF Plain, Processor, load_multiboot_mods, pci_find_device, ide_init
    <3>5. CASE Command \/ ClearFlag \/ Wait \/ test_filesystem \/ vbe_bios_call \/ Check \/ Halt
      BY <1>1, <3>5, SameScreen DEF Command, ClearFlag, Wait, test_filesystem, vbe_bios_call, Check, Halt
    <3>6. QED
      BY <1>3, <3>1, <3>2, <3>3, <3>4, <3>5 DEF Program
  <2>3. QED
    BY <1>2, <2>1, <2>2 DEF JInv
<1>4. CASE ModeCall
  <2>1. Calling' /\ SetFirst'
    BY <1>1, <1>4, UseReady
  <2>2. UNCHANGED screen
    BY <1>4 DEF ModeCall, Use
  <2>3. QED
    BY <1>1, <1>2, <2>1, <2>2, SameScreen DEF JInv
<1>5. CASE DiskAnswers \/ DiskInterrupt \/ (\E line \in Lines : RealModeInterrupt(line)) \/ UNCHANGED vars
  <2>1. UNCHANGED <<todo, pc, bios, screen>>
    BY <1>5 DEF DiskAnswers, DiskInterrupt, RealModeInterrupt, machine, screen, vars
  <2>2. UNCHANGED <<card, mode_info>>
    BY <2>1 DEF screen
  <2>3. QED
    BY <1>1, <1>2, <2>1, <2>2, SameScreen, Quiet DEF JInv
<1>6. CASE DrawCall
  <2>1. UNCHANGED <<todo, pc, bios, card, mode_info>>
    BY <1>6 DEF DrawCall, Draw, Write, machine
  <2>2. OnScreen'
    BY <1>1, <1>6, DrawScreen
  <2>3. QED
    BY <1>1, <1>2, <2>1, <2>2, Quiet DEF JInv
<1>7. QED
  BY <1>3, <1>4, <1>5, <1>6 DEF Next

(* While a mode that vbe_set_mode set is the last thing the card was asked *)
(* for, the block at 0x9200 describes it and pixels, pictures, cleared     *)
(* screens and characters stay within its frame: for any card whose modes  *)
(* the driver can draw in, any fonts and pictures, and any use of the      *)
(* driver, the BIOS refusing whatever it likes.                            *)
THEOREM DrawingStaysInFrame == Spec => []DrawnInFrame
<1>1. Init => JInv
  BY InitIsInv, InitOnScreen DEF JInv
<1>2. JInv /\ [Next]_vars => JInv'
  BY NextOnScreen
<1>3. JInv => DrawnInFrame
  BY DEF JInv, OnScreen, DrawnInFrame
<1>4. QED
  BY <1>1, <1>2, <1>3, PTL DEF Spec

-----------------------------------------------------------------------------
(* Pictures *)

LEMMA BelowWord ==
  ASSUME NEW a \in 0 .. Word - 1
  PROVE  a % Word = a
BY PictureAssumption DEF PictureAssumption

(* A row and its padding are a whole number of words. *)
LEMMA RowIsStride ==
  ASSUME NEW n \in Nat
  PROVE  /\ n + Padding(n) = 4 * ((8 * n + 31) \div 32)
         /\ Padding(n) \in 0 .. 3
<1> DEFINE q == n \div 4
           r == n % 4
<1>1. q \in Int /\ r \in 0 .. 3 /\ n = 4 * q + r
  OBVIOUS
<1>2. Padding(n) = (4 - r) % 4
  BY DEF Padding
<1> HIDE DEF q, r
<1>3. CASE r = 0
  <2>1. Padding(n) = 0
    BY <1>2, <1>3
  <2>2. (8 * n + 31) \div 32 = q
    BY <1>1, <1>3
  <2>3. QED
    BY <1>1, <1>3, <2>1, <2>2
<1>4. CASE r # 0
  <2>1. Padding(n) = 4 - r
    BY <1>1, <1>2, <1>4
  <2>2. (8 * n + 31) \div 32 = q + 1
    BY <1>1, <1>4
  <2>3. QED
    BY <1>1, <1>4, <2>1, <2>2
<1>5. QED
  BY <1>3, <1>4

LEMMA RowBytes ==
  ASSUME NEW w \in Nat, NEW bpp \in {24, 32}
  PROVE  /\ bpp \div 8 \in {3, 4} /\ w * bpp = 8 * (w * (bpp \div 8)) /\ w * (bpp \div 8) \in Nat
         /\ w * (bpp \div 8) + Padding(w * (bpp \div 8)) = 4 * ((w * bpp + 31) \div 32)
         /\ w * (bpp \div 8) =< 4 * ((w * bpp + 31) \div 32)
<1> DEFINE b == bpp \div 8
           n == w * b
<1>1. b \in {3, 4} /\ w * bpp = 8 * n /\ n \in Nat
  OBVIOUS
<1> HIDE DEF b, n
<1>2. n + Padding(n) = 4 * ((8 * n + 31) \div 32) /\ Padding(n) \in 0 .. 3
  BY <1>1, RowIsStride
<1>3. n + Padding(n) >= n
  BY <1>1, <1>2
<1>4. QED
  BY <1>1, <1>2, <1>3 DEF b, n

(* Pixels of row y of h, whose bytes are below the picture's end. *)
LEMMA PixelBelow ==
  ASSUME NEW h \in Nat, NEW y \in 0 .. h - 1, NEW s \in Nat, NEW w \in Nat, NEW x \in 0 .. w - 1, NEW b \in {3, 4},
         w * b =< s
  PROVE  y * s + x * b \in Nat /\ y * s + x * b + b =< h * s
<1>1. y * s =< (h - 1) * s /\ y * s \in Nat /\ (h - 1) * s \in Int
  <2>1. (h - 1 - y) * s >= 0
    <3>1. h - 1 - y \in Nat
      OBVIOUS
    <3>2. QED
      BY <3>1
  <2>2. (h - 1 - y) * s = (h - 1) * s - y * s
    OBVIOUS
  <2>3. y * s \in Nat /\ (h - 1) * s \in Int
    OBVIOUS
  <2>4. QED
    BY <2>1, <2>2, <2>3
<1>2. (h - 1) * s = h * s - s /\ h * s \in Nat
  OBVIOUS
<1>3. x * b + b =< w * b /\ x * b \in Nat /\ w * b \in Nat
  <2>1. CASE b = 3
    BY <2>1
  <2>2. CASE b = 4
    BY <2>2
  <2>3. QED
    BY <2>1, <2>2
<1>4. QED
  BY <1>1, <1>2, <1>3

LEMMA ErrorIs ==
  ASSUME NEW f \in Bitmaps, FitsWord(f)
  PROVE  BmpError(f) = 0 <=> f.size >= 54 /\ Uncompressed(f) /\ f.data_offset + f.image_size =< f.size
<1>1. /\ f.size \in Nat /\ f.data_offset \in Nat /\ f.image_size \in Nat /\ f.width \in Int /\ f.height \in Int /\ f.bpp \in Int
      /\ f.header_size \in Nat /\ f.signature \in BOOLEAN /\ f.compressed \in BOOLEAN /\ Word \in Nat
  BY PictureAssumption DEF PictureAssumption
<1>2. (f.data_offset + f.image_size) % Word = f.data_offset + f.image_size
  <2>1. f.data_offset + f.image_size \in 0 .. Word - 1
    BY <1>1 DEF FitsWord
  <2>2. QED
    BY <2>1, BelowWord
<1>3. QED
  BY <1>1, <1>2 DEF BmpError, Uncompressed

LEMMA PictureIs ==
  ASSUME NEW f \in Bitmaps, FitsWord(f), Uncompressed(f), f.data_offset + f.image_size =< f.size
  PROVE  IsPictureOf(read_bmp(f), f)
<1> DEFINE b == f.bpp \div 8
           n == f.width * b
           h == AbsHeight(f)
           s == Stride(f)
           got == read_bmp(f)
<1>1. /\ f.size \in Nat /\ f.data_offset \in Nat /\ f.image_size \in Nat /\ f.height \in Int /\ Word \in Nat
      /\ f.width \in Nat \ {0} /\ f.height # 0 /\ f.bpp \in {24, 32}
  BY PictureAssumption DEF PictureAssumption, Uncompressed
<1>2. h \in Nat \ {0} /\ h \in {f.height, - f.height} \intersect Nat
  BY <1>1 DEF AbsHeight
<1>3. b \in {3, 4} /\ n \in Nat /\ n + Padding(n) = s /\ n =< s
  BY <1>1, RowBytes DEF Stride
<1>4. s \in Nat /\ h * s >= s /\ h * s \in Nat
  <2>1. s \in Nat
    <3>1. f.width * f.bpp \in Nat
      BY <1>1
    <3>2. (f.width * f.bpp + 31) \div 32 \in Int
      BY <3>1
    <3>3. s \in Int
      BY <3>2 DEF Stride
    <3> HIDE DEF s, n
    <3>4. QED
      BY <1>3, <3>3
  <2> HIDE DEF s, h
  <2>2. (h - 1) * s >= 0 /\ (h - 1) * s = h * s - s /\ h * s \in Nat
    BY <1>2, <2>1
  <2>3. QED
    BY <2>1, <2>2
<1>5. f.data_offset + h * s < Word
  BY DEF FitsWord
<1>6. n % Word = n /\ s % Word = s
  <2> HIDE DEF s, h, n
  <2>1. n \in 0 .. Word - 1 /\ s \in 0 .. Word - 1
    BY <1>1, <1>3, <1>4, <1>5
  <2>2. QED
    BY <2>1, BelowWord
<1>7. /\ got.width = f.width /\ got.height = h
      /\ got.pixel = [p \in (0 .. f.width - 1) \X (0 .. h - 1) |-> (f.data_offset + Row(f, p[2]) * s + p[1] * b) % Word]
  <2>1. (f.width * b + Padding((f.width * b) % Word)) % Word = s
    <3> HIDE DEF s, b
    <3>1. QED
      BY <1>3, <1>6
  <2>2. \A y : Row(f, y) = IF f.height > 0 THEN h - 1 - y ELSE y
    BY DEF Row, AbsHeight
  <2> HIDE DEF s, h
  <2>3. QED
    BY <2>1, <2>2 DEF read_bmp, h
<1> HIDE DEF got, h, s, b, n
<1>8. ASSUME NEW x \in 0 .. f.width - 1, NEW y \in 0 .. h - 1
      PROVE  /\ got.pixel[<<x, y>>] = f.data_offset + Row(f, y) * s + x * b
             /\ f.image_size = h * s => got.pixel[<<x, y>>] + b =< f.size
  <2> DEFINE z == Row(f, y)
             off == z * s + x * b
  <2>1. z \in 0 .. h - 1
    BY <1>1, <1>2 DEF Row, AbsHeight, h
  <2> HIDE DEF z
  <2>2. off \in Nat /\ off + b =< h * s
    BY <1>1, <1>2, <1>3, <1>4, <2>1, PixelBelow DEF n
  <2>3. f.data_offset + z * s + x * b = f.data_offset + off
    BY <1>1, <1>3, <1>4, <2>1
  <2> HIDE DEF off
  <2>4. f.data_offset + off \in 0 .. Word - 1
    BY <1>1, <1>3, <1>4, <1>5, <2>2
  <2>5. (f.data_offset + off) % Word = f.data_offset + off
    BY <2>4, BelowWord
  <2>6. got.pixel[<<x, y>>] = f.data_offset + off
    <3>1. got.pixel[<<x, y>>] = (f.data_offset + Row(f, y) * s + x * b) % Word
      BY <1>7
    <3>2. QED
      BY <2>3, <2>5, <3>1 DEF z
  <2>7. ASSUME f.image_size = h * s PROVE f.data_offset + off + b =< f.size
    BY <1>1, <1>3, <1>4, <2>2, <2>7
  <2>8. QED
    BY <2>3, <2>6, <2>7 DEF z
<1>9. QED
  BY <1>2, <1>7, <1>8 DEF IsPictureOf, got, s, b

(* utils/bmp.c: for every header a file may have whose sizes do not wrap,  *)
(* read_bmp takes the file if and only if it is a picture the function     *)
(* knows, and finds each of its pixels; none is behind the buffer when the *)
(* header says how long the data are.                                      *)
THEOREM PicturesAreRight == Spec => []PictureIsRight
<1>1. PictureIsRight
  BY ErrorIs, PictureIs DEF PictureIsRight
<1>2. QED
  BY <1>1, PTL
=============================================================================
