-------------------------------- MODULE MCLog --------------------------------
(***************************************************************************)
(* Every format of up to three of these parts, with its arguments, and the  *)
(* call of the signal handler whose %P takes none, for TLC.                 *)
(***************************************************************************)
EXTENDS Log

Part(kind, c, zero, width, decimals) ==
    [kind |-> kind, c |-> c, zero |-> zero, width |-> width, base |-> 10,
     decimals |-> decimals]
Num(n) == [type |-> "int", neg |-> FALSE, ud |-> n]
NegNum(n) == [type |-> "int", neg |-> TRUE, ud |-> n]
Str(s) == [type |-> "str", text |-> s]
Float(neg, ud, frac) == [type |-> "float", neg |-> neg, ud |-> ud, frac |-> frac]

MCParts ==
    {[part |-> Part("char", "a", FALSE, 0, 0), arg |-> <<>>],
     [part |-> Part("percent", "", FALSE, 0, 0), arg |-> <<>>],
     [part |-> Part("int", "", FALSE, 0, 0), arg |-> <<Num(7)>>],
     [part |-> Part("int", "", TRUE, 3, 0), arg |-> <<Num(42)>>],
     [part |-> Part("int", "", FALSE, 2, 0), arg |-> <<NegNum(8)>>],
     [part |-> [Part("int", "", FALSE, 0, 0) EXCEPT !.base = 16], arg |-> <<Num(300)>>],
     [part |-> Part("str", "", FALSE, 0, 0), arg |-> <<Str(<<"s", "%", "s">>)>>],
     [part |-> Part("str", "", FALSE, 0, 0), arg |-> <<Str(<<"b">>)>>],
     [part |-> Part("float", "", FALSE, 3, 0), arg |-> <<Float(TRUE, 5, 0)>>],
     [part |-> Part("float", "", FALSE, 0, 2), arg |-> <<Float(FALSE, 99, 100)>>],
     [part |-> Part("float", "", FALSE, 0, 2), arg |-> <<Float(FALSE, 0, 4)>>]}

MCCall(parts) ==
    [fmt |-> [i \in DOMAIN parts |-> parts[i].part],
     args |-> FlattenSeq([i \in DOMAIN parts |-> parts[i].arg])]

\* "signal %d (%s) received from %P%s", with signo, signame, si_pid and action.
MCSignal ==
    [fmt |-> <<Part("int", "", FALSE, 0, 0), Part("str", "", FALSE, 0, 0),
               Part("char", "P", FALSE, 0, 0), Part("str", "", FALSE, 0, 0)>>,
     args |-> <<Num(1), Str(<<"H">>), Num(9), Str(<<>>)>>]

MCCalls == {MCCall(parts) : parts \in UNION {[1..n -> MCParts] : n \in 0..3}}
           \cup {MCSignal}

MCPrefix == <<"Z">>
MCCorePrefix == <<"T", "L">>
MCErrText == <<"(", "e", " ">>
=============================================================================
