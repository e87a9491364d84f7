-------------------------------- MODULE Config --------------------------------
(***************************************************************************)
(* CConfig (zhy_conf.cpp): Load reads the configuration file line by line   *)
(* into m_ConfigItemList, GetString and GetIntDefault look a name up in it. *)
(*                                                                         *)
(* A text is the sequence of its characters, "nl", "cr", "tab", "sp" and    *)
(* "semi" among them; the file holds no zero bytes.  A read may fail for    *)
(* good, as it does when the name is that of a directory, which fopen opens.*)
(***************************************************************************)
EXTENDS Integers, Sequences, FiniteSets, SequencesExt

CONSTANTS
    LinesSize,      \* sizeof(lines): fgets reads one character less
    ItemNameSize,   \* sizeof(ItemName)
    Files,          \* what the configuration file may hold
    NULL

ASSUME ConfigAssumption ==
    /\ LinesSize \in Nat /\ LinesSize > 1
    /\ ItemNameSize \in Nat \ {0}
    /\ \A f \in Files : f \in Seq(STRING)

VARIABLES
    load,       \* where Load is: "idle", "loop", "true" or "false" (what it returned)
    file,       \* the file, which nobody changes
    unreadable, \* reads fail
    rest,       \* what is still to be read
    eof,        \* feof(fp)
    lines,      \* the buffer
    m_ConfigItemList

loading == <<load, file, unreadable, rest, eof, lines, m_ConfigItemList>>

-----------------------------------------------------------------------------
(* Texts.                                                                  *)

Text == Seq(STRING)

Before(text, n) == SubSeq(text, 1, n - 1)
After(text, n) == SubSeq(text, n + 1, Len(text))
From(text, n) == SubSeq(text, n, Len(text))

\* The place of the first character of a text with a property, 0 if there is none.
FirstThat(text, Test(_)) ==
    LET places == {i \in DOMAIN text : Test(text[i])} IN
    IF places = {} THEN 0 ELSE CHOOSE i \in places : \A j \in places : i <= j

\* A text without what it ends or begins with.
TrimEnd(text, set) ==
    LET kept == {i \in DOMAIN text : text[i] \notin set} IN
    IF kept = {} THEN <<>>
    ELSE SubSeq(text, 1, CHOOSE i \in kept : \A j \in kept : j <= i)

Rtrim[text \in Text] == TrimEnd(text, {"sp"})

Ltrim[text \in Text] ==
    LET start == FirstThat(text, LAMBDA c : c # "sp") IN
    IF start = 0 THEN <<>> ELSE From(text, start)

Lower(c) == CASE c = "A" -> "a" [] c = "B" -> "b" [] OTHER -> c

\* strcasecmp(a, b) == 0
SameName(a, b) == [i \in DOMAIN a |-> Lower(a[i])] = [i \in DOMAIN b |-> Lower(b[i])]

\* GetString; GetIntDefault returns the number it finds in the same place, or its default.
GetString(p_itemname) ==
    LET hit == FirstThat(m_ConfigItemList, LAMBDA item : SameName(item[1], p_itemname)) IN
    IF hit = 0 THEN NULL ELSE m_ConfigItemList[hit][2]

-----------------------------------------------------------------------------
(* Load.                                                                   *)

Comment == {"semi", "sp", "#", "tab", "nl"}

\* The item of a buffer without its line end.  A name of ItemNameSize characters or
\* more leaves no room for its end: it is cut, and goes on with ItemContent.
Item[line \in Text] ==
    LET equals == FirstThat(line, LAMBDA c : c = "=")
        name == Before(line, equals)
        content == Rtrim[After(line, equals)] IN
    IF Len(name) < ItemNameSize
    THEN <<Rtrim[name], Ltrim[content]>>
    ELSE <<Rtrim[SubSeq(name, 1, ItemNameSize) \o Ltrim[content]], Ltrim[content]>>

\* Lines 39 to 81: what a buffer adds to the list.
ItemsOf[buffer \in Text] ==
    LET line == TrimEnd(buffer, {"nl", "cr", "sp"}) IN
    IF \/ Head(buffer) \in Comment \/ line = <<>> \/ Head(line) = "["
       \/ FirstThat(line, LAMBDA c : c = "=") = 0
    THEN <<>> ELSE <<Item[line]>>

Open ==
    /\ load = "idle"
    /\ \/ load' = "loop"
       \/ load' = "false"
    /\ UNCHANGED <<file, unreadable, rest, eof, lines, m_ConfigItemList>>

\* fgets reads up to a line end, to the end of the file, or until the buffer is full; it
\* notices the end of the file only when it looks for a character behind it.
ReadLine ==
    /\ load = "loop" /\ ~eof /\ ~unreadable /\ rest # <<>>
    /\ LET end == FirstThat(rest, LAMBDA c : c = "nl")
           whole == IF end = 0 THEN Len(rest) ELSE end
           n == IF whole < LinesSize THEN whole ELSE LinesSize - 1
       IN  /\ lines' = SubSeq(rest, 1, n)
           /\ rest' = After(rest, n)
           /\ eof' = (end = 0 /\ Len(rest) < LinesSize - 1)
           /\ m_ConfigItemList' = m_ConfigItemList \o ItemsOf[lines']
    /\ UNCHANGED <<load, file, unreadable>>

\* A mutant of ReadNothing: the result of fgets is not tested, and the last line is there
\* a second time.
ReadNothingUntested ==
    /\ load = "loop" /\ ~eof /\ ~unreadable /\ rest = <<>>
    /\ eof' = TRUE
    /\ m_ConfigItemList' =
          IF lines = <<>> THEN <<>> ELSE m_ConfigItemList \o ItemsOf[lines]
    /\ UNCHANGED <<load, file, unreadable, rest, lines>>

\* A mutant of ReadNothing: the loop is left for the end of the file only if the last
\* line has no line end.
ReadNothingForgets ==
    /\ load = "loop" /\ ~eof /\ ~unreadable /\ rest = <<>>
    /\ UNCHANGED loading

\* NULL at the end of the file; the loop goes round and tests feof.  A read that fails
\* returns NULL too, for ever, without an end of the file: such a turn changes nothing.
ReadNothing ==
    /\ load = "loop" /\ ~eof /\ ~unreadable /\ rest = <<>>
    /\ eof' = TRUE
    /\ UNCHANGED <<load, file, unreadable, rest, lines, m_ConfigItemList>>

Close ==
    /\ load = "loop" /\ eof
    /\ load' = "true"
    /\ UNCHANGED <<file, unreadable, rest, eof, lines, m_ConfigItemList>>

Load == Open \/ ReadLine \/ ReadNothing \/ Close

InitConfig ==
    /\ load = "idle"
    /\ file \in Files /\ rest = file /\ unreadable \in BOOLEAN
    /\ eof = FALSE /\ lines = <<>> /\ m_ConfigItemList = <<>>

-----------------------------------------------------------------------------
(* What the file says, without a buffer.                                   *)

\* The places where a line begins, and the line there.
Begins(i) == i \in DOMAIN file /\ (i = 1 \/ file[i - 1] = "nl")
FirstLine[text \in Text] ==
    LET end == FirstThat(text, LAMBDA c : c = "nl") IN
    IF end = 0 THEN text ELSE Before(text, end)
LineAt(i) == FirstLine[From(file, i)]

\* The smallest part of a text that only blanks surround.
Core[text \in Text] ==
    LET ink == {i \in DOMAIN text : text[i] # "sp"} IN
    IF ink = {} THEN <<>>
    ELSE SubSeq(text, CHOOSE i \in ink : \A j \in ink : i <= j,
                      CHOOSE i \in ink : \A j \in ink : j <= i)

\* A carriage return counts as a blank at the end of a line only.
Equals[line \in Text] == FirstThat(line, LAMBDA c : c = "=")
IsItem(line) == Equals[line] # 0 /\ Head(line) \notin Comment \cup {"["}
Meant(line) ==
    LET text == TrimEnd(line, {"cr", "sp"}) IN
    <<Core[Before(text, Equals[line])], Core[After(text, Equals[line])]>>

\* The lines fit into the buffer, the names into ItemName.
Fits == \A i \in DOMAIN file : Begins(i) =>
    /\ Len(LineAt(i)) < LinesSize - 1
    /\ IsItem(LineAt(i)) => Equals[LineAt(i)] <= ItemNameSize

\* The first n characters are in the list: each item that begins there once, in its order.
Items == {i \in DOMAIN file : Begins(i) /\ IsItem(LineAt(i))}
ItemsUpTo(n) == {i \in Items : i <= n}
Listed(n) ==
    /\ Len(m_ConfigItemList) = Cardinality(ItemsUpTo(n))
    /\ \A i \in ItemsUpTo(n) :
          m_ConfigItemList[Cardinality(ItemsUpTo(i))] = Meant(LineAt(i))

\* The items of the list are those of the file, each once and in its order, whether or
\* not the last line has an end, when all lines and names fit.
ItemsOfFile == (load = "true" /\ Fits) => Listed(Len(file))

\* Load returns, unless the file cannot be read: then its loop never ends.
LoadReturns == (load = "loop") ~> (load = "true" \/ unreadable)
=============================================================================
