----------------------------- MODULE MCStreams -----------------------------
(***************************************************************************)
(* A buffer of three characters and a text that leaves room in it, with    *)
(* the newline before its end, and one that runs over it; two conversions  *)
(* of a format would only repeat what two calls do.                        *)
(***************************************************************************)
EXTENDS Streams

Texts == {<<"n", "b">>, <<"a", "n", "b", "a">>}
Letters == {"a", "b", "n"}

\* The conversions that the streams' texts come from have no state: what is
\* true of them, over all the calls of MCFormats, is evaluated where the
\* run begins.
AtStart == calls = 0
F == INSTANCE MCFormats

\* vsnprintf stores the text that C prescribes, cut to the buffer.
SnprintfIsStandard == AtStart => F!SnprintfIsStandard
\* format_string prints the digits asked for, and the nearest decimal.
FormatStringIsExact == AtStart => F!FormatStringIsExact
\* serial_printf prints what its tests announce, but for four of them.
TestsPassButFour == AtStart => F!TestsPassButFour
\* kscanf reads back what format_string wrote.
ScanReadsWhatWasPrinted == AtStart => F!ScanReadsWhatWasPrinted
\* A character has the colours of the last codes in front of it.
TextIsColoured == AtStart => F!TextIsColoured
\* Every character of the keyboard has one key.
EveryCharacterHasAKey == AtStart => F!EveryCharacterHasAKey
=============================================================================
