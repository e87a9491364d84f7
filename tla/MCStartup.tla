------------------------------ MODULE MCStartup ------------------------------
(***************************************************************************)
(* Files of up to two of these lines, the last with or without its end,     *)
(* for TLC: with LinesSize = 9 and ItemNameSize = 4 all fit but the last    *)
(* two, one of which is cut in two and the other's name is too long.        *)
(***************************************************************************)
EXTENDS Startup

MCLines == {<<"a", "=", "b">>, <<"A", "sp", "=", "sp", "b", "sp">>, <<"b", "=", "a", "=", "cr">>,
            <<"#", "a", "=", "b">>, <<"sp", "a", "=">>, <<"[", "=">>, <<"=">>, <<"a">>,
            <<>>, <<"sp">>, <<"b", "=", "sp", "a", "b">>, <<"cr", "=", "cr", "a", "cr">>,
            <<"a", "=", "b", "b", "b", "b", "b", "b", "a", "=">>,
            <<"a", "b", "a", "b", "=", "a">>}

MCFile(list, ended) ==
    FlattenSeq([i \in DOMAIN list |->
        IF i < Len(list) \/ ended THEN Append(list[i], "nl") ELSE list[i]])

MCFiles == {MCFile(list, ended) :
              list \in UNION {[1..n -> MCLines] : n \in 0..2}, ended \in BOOLEAN}

MCArguments == {<<3>>, <<2, 1>>, <<1, 0>>}
MCEnvironments == {<<>>, <<4, 0>>}
MCLogName == <<"a">>
=============================================================================
