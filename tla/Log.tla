--------------------------------- MODULE Log ---------------------------------
(***************************************************************************)
(* A line of the log: zhy_vslprintf (zhy_print.cpp) writes the text of a    *)
(* call into a buffer of fixed size, zhy_log_stderr and zhy_log_error_core  *)
(* (zhy_log.cpp) frame, cut and write it.  zhy_log_stderr hands what it     *)
(* has written on to zhy_log_error_core as a format; zhy_log_init reports   *)
(* its own failure through zhy_log_stderr.                                  *)
(*                                                                         *)
(* A format is the sequence of its parts, as lines 55 to 100 of             *)
(* zhy_print.cpp read them: characters, and conversions with their width,   *)
(* fill and number of decimals; the arguments are a sequence of their own,  *)
(* as va_arg takes them.  A buffer is the sequence of what was written.     *)
(* An integer is given as its absolute value and, for %d, its sign.         *)
(* The case of hexadecimal digits and the width of an integer are left out. *)
(***************************************************************************)
EXTENDS Integers, Sequences, FiniteSets, SequencesExt

CONSTANTS
    ZHY_MAX_ERROR_STR,  \* last - errstr
    ZHY_INT64_LEN,      \* the digits of the longest number
    Prefix,             \* "ZhyNginx: "
    CorePrefix,         \* date, level and "P: " in front of a line of the file
    ErrText,            \* " (errno: strerror) ", which zhy_log_errno adds
    Calls,              \* the calls made: fmt and args
    Levels              \* the levels of calls, and of LogLevel

\* The parts of a caller's format, and the arguments.
Kinds == {"char", "percent", "int", "str", "float"}
CallPart == [kind : Kinds, c : STRING, zero : BOOLEAN, width : Nat, base : {10, 16},
             decimals : Nat]
Argument == [type : {"int"}, neg : BOOLEAN, ud : Nat] \cup [type : {"str"}, text : Seq(STRING)]
            \cup [type : {"float"}, neg : BOOLEAN, ud : Nat, frac : Nat]
            \cup [type : {"null"}]

ASSUME LogAssumption ==
    /\ ZHY_MAX_ERROR_STR \in Nat /\ ZHY_INT64_LEN \in Nat \ {0}
    /\ Prefix \in Seq(STRING) /\ CorePrefix \in Seq(STRING) /\ ErrText \in Seq(STRING)
    /\ Len(Prefix) < ZHY_MAX_ERROR_STR - 1 /\ Len(CorePrefix) < ZHY_MAX_ERROR_STR - 1
    /\ \A c \in Calls : c.fmt \in Seq(CallPart) /\ c.args \in Seq(Argument)

Size == ZHY_MAX_ERROR_STR
NL == "nl"
NUL == "nul"

VARIABLES
    at,         \* "idle", "format", "done", "fault" (SIGSEGV) or "overrun" (memcpy of less
                \* than no bytes)
    who,        \* the function whose buffer it is: "stderr" or "core"
    level, err, \* of the call; err: it names an errno
    fmt, args,  \* the parts of the format and the arguments not used yet
    buf,        \* errstr up to p
    fd, logLevel,   \* zhy_log
    shown,      \* history: the line of zhy_log_stderr, or one that came back to the terminal
    logged,     \* history: the line written to the log
    want,       \* history: the text the buffer is to hold; empty when an argument is amiss
    bare,       \* history: that text without the signs of the integers
    minus       \* history: one of the integers is negative

call == <<who, level, err>>
zhy_log == <<fd, logLevel>>
lines == <<shown, logged>>
texts == <<want, bare, minus>>
vars == <<at, call, fmt, args, buf, zhy_log, lines, texts>>

-----------------------------------------------------------------------------
(* What a text is, without a buffer.                                        *)

HexDigits == <<"0", "1", "2", "3", "4", "5", "6", "7", "8", "9",
               "a", "b", "c", "d", "e", "f">>

\* The digits of a number: temp of zhy_sprintf_num, from p on.
Digits(ui64, base) ==
    LET len == Cardinality({k \in 0..(ZHY_INT64_LEN - 1) : k = 0 \/ base^k <= ui64}) IN
    [i \in 1..len |-> HexDigits[((ui64 \div base^(len - i)) % base) + 1]]

RightAligned(text, width, fill) ==
    LET pad == IF width > Len(text) THEN width - Len(text) ELSE 0 IN
    [i \in 1..(pad + Len(text)) |-> IF i <= pad THEN fill ELSE text[i - pad]]

Fill(part) == IF part.zero THEN "0" ELSE " "

\* A float is given as its integer part and its decimals, rounded, which may carry.
Scale(part) == 10^part.decimals
IntegerPart(part, f) ==
    IF part.decimals > 0 /\ f.frac = Scale(part) THEN f.ud + 1 ELSE f.ud
Fraction(part, f) == IF f.frac = Scale(part) THEN 0 ELSE f.frac

\* The text of a part, for an integer that of its absolute value ...
BareText(part, arg) ==
    CASE part.kind = "char"    -> <<part.c>>
      [] part.kind = "percent" -> <<"%">>
      [] part.kind = "int"     ->
            RightAligned(Digits(arg.ud, part.base), part.width, Fill(part))
      [] part.kind = "str"     -> arg.text
      [] part.kind = "float"   ->
            (IF arg.neg THEN <<"-">> ELSE <<>>)
            \o RightAligned(Digits(IntegerPart(part, arg), 10), part.width, Fill(part))
            \o (IF part.decimals = 0 THEN <<>>
                ELSE <<".">> \o RightAligned(Digits(Fraction(part, arg), 10),
                                             part.decimals, "0"))

\* ... and with the sign of an integer: %d is signed unless u or x is with it, and a sign
\* stands in front of the field, as that of a float does.
Negative(arg) == arg.type = "int" /\ arg.neg
PartText(part, arg) ==
    (IF part.kind = "int" /\ part.base = 10 /\ Negative(arg) THEN <<"-">> ELSE <<>>)
    \o BareText(part, arg)

Takes(part) == part.kind \in {"int", "str", "float"}
ArgOf(c, i) == Cardinality({j \in 1..i : Takes(c.fmt[j])})
Matched(c) == \A i \in DOMAIN c.fmt :
    Takes(c.fmt[i]) => /\ ArgOf(c, i) \in DOMAIN c.args
                       /\ c.args[ArgOf(c, i)].type = c.fmt[i].kind

Text(c) == FlattenSeq([i \in DOMAIN c.fmt |->
               IF Takes(c.fmt[i]) THEN PartText(c.fmt[i], c.args[ArgOf(c, i)])
                                  ELSE PartText(c.fmt[i], <<>>)])
Bare(c) == FlattenSeq([i \in DOMAIN c.fmt |->
               IF Takes(c.fmt[i]) THEN BareText(c.fmt[i], c.args[ArgOf(c, i)])
                                  ELSE BareText(c.fmt[i], <<>>)])
Wanted(front, c, text) == IF Matched(c) THEN front \o text ELSE <<>>

-----------------------------------------------------------------------------
(* zhy_vslprintf: one turn of its loop each.                                *)

Least(a, b) == IF a < b THEN a ELSE b
Cut(text) == SubSeq(text, 1, Least(Len(text), Size))

\* Fill up to the width, then as many digits as there is room for.
zhy_sprintf_num(out, digits, fill, width) ==
    LET missing == IF width > Len(digits) THEN width - Len(digits) ELSE 0
        padded == out \o [i \in 1..Least(missing, Size - Len(out)) |-> fill]
    IN  padded \o SubSeq(digits, 1, Least(Len(digits), Size - Len(padded)))

Turn(kind) ==
    at = "format" /\ fmt # <<>> /\ Len(buf) < Size /\ Head(fmt).kind = kind
Put(text) == buf' = text /\ fmt' = Tail(fmt)
Arg(type) == args # <<>> /\ Head(args).type = type

PrintChar ==
    /\ \/ Turn("char") /\ Put(Append(buf, Head(fmt).c))
       \/ Turn("percent") /\ Put(Append(buf, "%"))
    /\ UNCHANGED <<at, call, args, zhy_log, lines, texts>>

\* A mutant of PrintInt: the room is tested before the fill only.
PrintIntAll ==
    /\ Turn("int") /\ Arg("int")
    /\ Put(buf \o BareText(Head(fmt), Head(args)))
    /\ args' = Tail(args)
    /\ UNCHANGED <<at, call, zhy_log, lines, texts>>

\* '-' is stored at *buf, and buf stays: the first character of the number takes its place.
PrintInt ==
    /\ Turn("int") /\ Arg("int")
    /\ Put(zhy_sprintf_num(buf, Digits(Head(args).ud, Head(fmt).base),
                           Fill(Head(fmt)), Head(fmt).width))
    /\ args' = Tail(args)
    /\ UNCHANGED <<at, call, zhy_log, lines, texts>>

PrintString ==
    /\ Turn("str") /\ Arg("str")
    /\ Put(Cut(buf \o Head(args).text))
    /\ args' = Tail(args)
    /\ UNCHANGED <<at, call, zhy_log, lines, texts>>

\* A mutant of PrintFloat: the decimals are not filled up with zeros.
PrintFloatUnfilled ==
    /\ Turn("float") /\ Arg("float") /\ args' = Tail(args)
    /\ LET part == Head(fmt)
           f == Head(args)
           signed == IF f.neg THEN Append(buf, "-") ELSE buf
           whole == zhy_sprintf_num(signed, Digits(IntegerPart(part, f), 10),
                                    Fill(part), part.width) IN
       IF part.decimals = 0 THEN Put(whole)
       ELSE Put(zhy_sprintf_num(Cut(Append(whole, ".")), Digits(Fraction(part, f), 10),
                                "0", 0))
    /\ UNCHANGED <<at, call, zhy_log, lines, texts>>

\* A mutant of PrintFloat: the case is left out, as that of %P is, and takes no argument.
PrintFloatMissing ==
    /\ Turn("float") /\ Arg("float")
    /\ Put(Append(buf, "f"))
    /\ UNCHANGED <<at, call, args, zhy_log, lines, texts>>

\* The point is stored without a look at last: when the integer part has reached it,
\* the length left for the decimals is -1.
PrintFloat ==
    /\ Turn("float") /\ Arg("float") /\ args' = Tail(args)
    /\ LET part == Head(fmt)
           f == Head(args)
           signed == IF f.neg THEN Append(buf, "-") ELSE buf
           whole == zhy_sprintf_num(signed, Digits(IntegerPart(part, f), 10),
                                    Fill(part), part.width) IN
       IF part.decimals = 0 THEN Put(whole) /\ UNCHANGED at
       ELSE IF Len(whole) < Size
       THEN /\ Put(zhy_sprintf_num(Append(whole, "."), Digits(Fraction(part, f), 10),
                                   "0", part.decimals))
            /\ UNCHANGED at
       ELSE buf' = Append(whole, ".") /\ at' = "overrun" /\ UNCHANGED fmt
    /\ UNCHANGED <<call, zhy_log, lines, texts>>

\* %s is given NULL, or a number because %P before it has taken no argument.
WildString ==
    /\ Turn("str") /\ args # <<>> /\ ~Arg("str")
    /\ at' = "fault"
    /\ UNCHANGED <<call, fmt, args, buf, zhy_log, lines, texts>>

\* A '%' in a text that is used as a format, and what follows it.  A conversion reads an
\* argument that nobody has passed, which is undefined: "fault" stands for what comes of it.
Skipped == {HexDigits[i] : i \in 1..10} \cup {".", "u", "x", "X"}
Conversions == {"d", "i", "L", "p", "s", "f"}
PrintRaw ==
    /\ Turn("raw")
    /\ LET rest == Tail(fmt) IN
       \/ rest = <<>> /\ Put(Append(buf, NUL)) /\ UNCHANGED at
       \/ /\ rest # <<>>
          /\ \/ /\ Head(rest).kind = "raw"
                /\ buf' = Append(buf, "%") /\ fmt' = Tail(rest) /\ UNCHANGED at
             \/ /\ Head(rest).kind = "char" /\ Head(rest).c \in Skipped
                /\ fmt' = <<Head(fmt)>> \o Tail(rest) /\ UNCHANGED <<at, buf>>
             \/ /\ Head(rest).kind = "char" /\ Head(rest).c \in Conversions
                /\ at' = "fault" /\ UNCHANGED <<buf, fmt>>
             \/ /\ Head(rest).kind = "char"
                /\ Head(rest).c \notin Skipped \cup Conversions
                /\ buf' = Append(buf, Head(rest).c) /\ fmt' = Tail(rest) /\ UNCHANGED at
    /\ UNCHANGED <<call, args, zhy_log, lines, texts>>

zhy_vslprintf ==
    PrintChar \/ PrintInt \/ PrintString \/ PrintFloat \/ WildString \/ PrintRaw
Formatted == at = "format" /\ (fmt = <<>> \/ Len(buf) >= Size)

-----------------------------------------------------------------------------
(* zhy_log.cpp                                                              *)

zhy_log_errno(text) ==
    IF err /\ Len(text) + Len(ErrText) < Size THEN text \o ErrText ELSE text

\* There is room for the newline.
Clamped(text) == IF Len(text) >= Size - 1 THEN SubSeq(text, 1, Size - 2) ELSE text

Begin(function, front, c) ==
    /\ at' = "format" /\ who' = function
    /\ fmt' = c.fmt /\ args' = c.args
    /\ buf' = front
    /\ want' = Wanted(front, c, Text(c)) /\ bare' = Wanted(front, c, Bare(c))
    /\ minus' = (\E i \in DOMAIN c.args : Negative(c.args[i]))

\* What zhy_log_stderr has in errstr, as the format of zhy_log_error_core.
AsFormat(text) ==
    [i \in DOMAIN text |-> IF text[i] = "%" THEN [kind |-> "raw"]
                                            ELSE [kind |-> "char", c |-> text[i]]]

Return ==
    /\ at' = "done"
    /\ fmt' = <<>> /\ args' = <<>> /\ buf' = <<>>
    /\ fd' = IF fd = -1 THEN 2 ELSE fd      \* zhy_log_init, after its report
    /\ UNCHANGED <<call, logLevel, texts>>

\* The caller goes on, and the histories begin afresh.
Continue ==
    /\ at = "done"
    /\ at' = "idle" /\ who' = "stderr" /\ level' = 0 /\ err' = FALSE
    /\ shown' = <<>> /\ logged' = <<>>
    /\ want' = <<>> /\ bare' = <<>> /\ minus' = FALSE
    /\ UNCHANGED <<fmt, args, buf, zhy_log>>

zhy_log_stderr(c) ==
    /\ at = "idle" /\ fd # -1
    /\ Begin("stderr", Prefix, c)
    /\ level' = 0 /\ err' \in BOOLEAN
    /\ UNCHANGED <<zhy_log, lines>>

\* A mutant of EndStderr: the line is closed after the errno without a look at last.
EndStderrUnclamped ==
    /\ Formatted /\ who = "stderr"
    /\ shown' = Append(zhy_log_errno(buf), NL) /\ UNCHANGED logged
    /\ Return

\* The line goes to the terminal and, without its newline, to the log file.
EndStderr ==
    /\ Formatted /\ who = "stderr"
    /\ LET line == Clamped(zhy_log_errno(buf)) IN
          /\ shown' = Append(line, NL) /\ UNCHANGED logged
          /\ IF fd > 2
             THEN /\ who' = "core" /\ at' = "format" /\ level' = 0 /\ err' = FALSE
                  /\ fmt' = AsFormat(line) /\ args' = <<>>
                  /\ buf' = CorePrefix
                  /\ want' = CorePrefix \o line /\ bare' = want' /\ minus' = FALSE
                  /\ UNCHANGED zhy_log
             ELSE Return

zhy_log_error_core(c) ==
    /\ at = "idle" /\ fd # -1
    /\ Begin("core", CorePrefix, c)
    /\ level' \in Levels /\ err' \in BOOLEAN
    /\ UNCHANGED <<zhy_log, lines>>

\* Above the level nothing is written; a write that fails for another reason than a
\* full disk is repeated on the terminal.
EndCore ==
    /\ Formatted /\ who = "core"
    /\ LET line == Append(Clamped(zhy_log_errno(buf)), NL) IN
       IF level > logLevel THEN UNCHANGED lines
       ELSE \/ logged' = line /\ UNCHANGED shown
            \/ UNCHANGED lines
            \/ fd # 2 /\ shown' = line /\ UNCHANGED logged
    /\ Return

\* With a name configured (and replaced by ZHY_ERROR_LOG_PATH) the file is opened, or its
\* failure reported; without one it is NULL that is given to open, and to %s.
InitReport(name) ==
    [fmt |-> <<[kind |-> "str"]>>,
     args |-> <<IF name THEN [type |-> "str", text |-> <<"a">>] ELSE [type |-> "null"]>>]

zhy_log_init(name) ==
    /\ at = "idle" /\ fd = -1
    /\ logLevel' \in Levels
    /\ \/ /\ name /\ fd' = 3
          /\ UNCHANGED <<at, call, fmt, args, buf, lines, texts>>
       \/ /\ Begin("stderr", Prefix, InitReport(name))
          /\ level' = 0 /\ err' = TRUE
          /\ UNCHANGED <<fd, lines>>

-----------------------------------------------------------------------------
\* main sets zhy_log.fd to -1 and opens the log before it calls anything that writes to it.
Init ==
    /\ at = "idle" /\ who = "stderr" /\ level = 0 /\ err = FALSE
    /\ fmt = <<>> /\ args = <<>> /\ buf = <<>>
    /\ fd = -1 /\ logLevel = 0
    /\ shown = <<>> /\ logged = <<>>
    /\ want = <<>> /\ bare = <<>> /\ minus = FALSE

Next ==
    \/ zhy_vslprintf \/ EndStderr \/ EndCore \/ Continue
    \/ \E c \in Calls : zhy_log_stderr(c) \/ zhy_log_error_core(c)
    \/ \E name \in BOOLEAN : zhy_log_init(name)

Spec == Init /\ [][Next]_vars

-----------------------------------------------------------------------------
(* Properties.                                                             *)

\* The text that the loop makes of a call: the one its parts stand for, but that the sign of
\* a negative integer is lost (zhy_print.cpp:157-160; line 59 calls %d signed).
Made == IF minus THEN bare ELSE want

\* Nothing is written behind last, whatever is printed (zhy_print.cpp:14 and 177) ...
NeverPastLast == Len(buf) <= Size

\* ... except by a float with decimals whose integer part has just reached last.
PastLastByPoint ==
    (Len(buf) > Size \/ at = "overrun") =>
        /\ at = "overrun" /\ Len(buf) = Size + 1
        /\ Head(fmt).kind = "float" /\ Head(fmt).decimals > 0

\* A program error stops a call only when its arguments do not match the format, or when
\* a text that holds a '%' is used as a format.
FaultByArgument == at = "fault" => (Made = <<>> \/ "%" \in ToSet(Made))

\* What the turns of the loop leave in the buffer is the text that the parts stand for,
\* one after the other, up to last, however the widths, fills and cuts fall: exactly so
\* when no integer is negative, and otherwise with nothing but their signs missing.
TextExact ==
    (Formatted /\ Made # <<>> /\ (who = "core" => "%" \notin ToSet(Made))) =>
        buf = Cut(Made)

\* A line, on the terminal or in the file, ends with its only newline inside of the buffer;
\* the errno is there whole, but for the closing blank, or not at all; the text before it,
\* the one that is made of the call, is cut only when there is no room.
LineWhole ==
    [][(/\ Formatted /\ lines' # lines
        /\ Made # <<>> /\ (who = "core" => "%" \notin ToSet(Made)))
       => LET out == IF shown' # shown THEN shown' ELSE logged'
              line == Front(out) IN
          /\ out[Len(out)] = NL /\ Len(out) < Size
          /\ \/ IsPrefix(line, Made) /\ (line = Made \/ Len(line) = Size - 2)
             \/ err /\ line \in {Made \o ErrText, Made \o Front(ErrText)}]_vars
=============================================================================
