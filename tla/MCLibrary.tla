------------------------------ MODULE MCLibrary -----------------------------
(***************************************************************************)
(* Parts of the library that stand on their own: a behaviour is one of     *)
(* TimerHeap, TlsTransport, SqlText, Translator, Page or LiveRequests; the *)
(* variables of the others stay as they are.                               *)
(*                                                                         *)
(* Of TlsTransport: a client that sends three requests in records of at    *)
(* most a request and a half, and begins an exchange of its own twice.     *)
(***************************************************************************)
EXTENDS TimerHeap, Translator, LiveRequests, TlsTransport, SequencesExt, FiniteSetsExt

VARIABLES
  part,                                          \* which of them
  units,                                         \* SqlText
  h, said                                        \* Page

pageVars == <<h, said>>

-----------------------------------------------------------------------------
\* Timers: deadlines in every order, with entries that no longer count.

Symmetry == Permutations(Conn)

-----------------------------------------------------------------------------
(* Statements: each way to enclose text, around "?", around the beginnings  *)
(* and ends of the others and around its own end, doubled or escaped.       *)

CONSTANTS MaxSqlUnits, MaxPieces

T == INSTANCE Texts
Unit(t) == [text |-> t, parameter |-> FALSE]
Enclosed(open, pieces, close) ==
  LET contents == {FlattenSeq(c) : c \in BoundedSeq(pieces, MaxPieces)}
  IN  {Unit(open \o c \o close) :
         c \in {d \in contents : Len(close) = 1 \/ T!FirstAt(close, d \o close, 1) = Len(d) + 1}}
Tag == <<"$", "a", "1", "$">>

AllUnits ==
  {[text |-> <<"?">>, parameter |-> TRUE]}
    \cup {Unit(t) : t \in {<<"a">>, <<"E">>, <<"-">>, <<"/">>, <<"*">>, <<"$", "1">>, <<"$", "1", "$">>}}
    \cup Enclosed(<<"'">>, {<<"?">>, <<"'", "'">>, <<"\\">>, <<"-", "-">>}, <<"'">>)
    \cup Enclosed(<<"E", "'">>, {<<"?">>, <<"'", "'">>, <<"\\", "'">>, <<"\\", "\\">>}, <<"'">>)
    \cup Enclosed(<<"\"">>, {<<"?">>, <<"\"", "\"">>, <<"'">>, <<"\\">>}, <<"\"">>)
    \cup Enclosed(<<"-", "-">>, {<<"?">>, <<"'">>, <<"/", "*">>}, <<"NL">>)
    \cup Enclosed(<<"/", "*">>, {<<"?">>, <<"'">>, <<"*">>, <<"-">>, <<"NL">>}, <<"*", "/">>)
    \cup Enclosed(<<"$", "$">>, {<<"?">>, <<"'">>, Tag, <<"a", "$">>}, <<"$", "$">>)
    \cup Enclosed(Tag, {<<"?">>, <<"'">>, <<"$", "$">>, <<"$", "a">>}, Tag)

Sql == INSTANCE SqlText WITH Units <- AllUnits, MaxUnits <- MaxSqlUnits

-----------------------------------------------------------------------------
(* Translations: two texts in two languages and a third language without a  *)
(* table; files that overlap, and files with a name twice, a value that is  *)
(* no string and a code that is none.                                       *)

Language(c, d) == [code |-> c, direction |-> d]
Member(n, v) == [name |-> n, value |-> v]
Group(n, v) == [name |-> n, object |-> TRUE, value |-> v]
Hi == <<"hi">>
Bye == <<"bye">>
BadValue == <<"bad">>

AllTables == {<<>>, <<Member(Hi, <<"1">>)>>, <<Member(Hi, <<"2">>), Member(Bye, <<"2">>)>>,
              <<Member(Hi, <<"1">>), Member(Hi, <<"2">>)>>, <<Member(Hi, BadValue)>>}
AllGroupFiles ==
  {<<Group(Hi, <<Member("ja", <<"3">>), Member("ar", <<"4">>)>>), Group(Bye, <<Member("ar", <<"5">>)>>)>>,
   <<Group(Bye, <<Member("ja", <<"6">>)>>), Group(Hi, <<>>)>>,
   <<Group(Hi, <<Member("ja", <<"7">>), Member("ja", <<"8">>)>>)>>,
   <<Group(Hi, <<Member("ja", <<"7">>)>>), Group(Hi, <<Member("ja", <<"8">>)>>)>>,
   <<Group(Hi, <<Member("ja", BadValue)>>)>>,
   <<Group(Hi, <<Member("Language", <<"9">>)>>)>>,
   <<[Group(Hi, <<Member("ja", <<"9">>)>>) EXCEPT !.object = FALSE]>>}

AllLanguages == {Language("en", "ltr"), Language("ja", "ltr"), Language("ja", "ttb")}

-----------------------------------------------------------------------------
(* Pages: elements in elements, with texts, attributes and options that     *)
(* hold the symbols HTML and JavaScript are made of.                        *)

CONSTANT MaxSaid

Sign == <<"<", "&">>
Attr(n, v) == [name |-> n, value |-> v, enabled |-> TRUE, noTranslate |-> FALSE, boolean |-> FALSE]
Off(a) == [a EXCEPT !.enabled = FALSE]
AllRootAttrs ==
  {<<>>, <<Attr("style", <<"c", ";", " ">>)>>, <<Attr("lang", <<"xx">>), Off(Attr("dir", <<"ltr">>))>>}
AllAttrs ==
  {<<>>,
   <<Attr("title", Hi), Attr("__sw_translation__", <<"0">>), Attr("style", <<"c">>),
     Attr("__sw_direction__", <<"ttb">>)>>,
   <<Attr("__sw_translation__", <<"0">>), Attr("__sw_translation__", <<"1">>),
     Attr("title", <<"&", "\"", "'", ">">>)>>}
AllVoidAttrs ==
  {<<[Attr("title", Hi) EXCEPT !.noTranslate = TRUE], [Attr("open", <<>>) EXCEPT !.boolean = TRUE],
     Attr("class", <<>>), Attr("id", Hi), Attr("__sw_direction__", <<"rtl">>), Attr("style", <<"c", ";">>)>>,
   <<Off(Attr("style", <<"c">>)), Attr("dir", <<"ltr">>), Attr("__sw_direction__", <<"ttb">>),
     Attr("placeholder", Sign)>>}
AllConfigs ==
  {<<Member("a", <<"<", "/", "script">>), Member("b", <<"NULL">>), Member("c", <<"\\", "\"", "'">>)>>}

Pages == INSTANCE Page WITH
           Languages <- {Language("ja", "ttb"), Language("ar", "rtl")},
           Tables <- {}, GroupFiles <- {}, ValidCodes <- {"ja", "ar", "en"},
           Loaded <- <<Group(Hi, <<Member("ja", <<"\"", "<">>), Member("ar", <<"'">>)>>),
                       Group(Sign, <<Member("ja", Hi)>>)>>,
           RootAttrs <- AllRootAttrs, Attrs <- AllAttrs, VoidAttrs <- AllVoidAttrs,
           Wordings <- {Hi}, Configs <- AllConfigs,
           MaxCalls <- 1

-----------------------------------------------------------------------------
\* The variables of the modules a behaviour is not of.
NoTimers == TimersInit
NoTls == TlsInit /\ client.control = "update"
NoTranslator == CreatedFrom(<<>>) /\ chosen = "en"
NoPage == h = 0 /\ said = 0
NoLive == LiveInit /\ config = [c \in DOMAIN config |-> FALSE]

Init ==
  \/ part = "timers" /\ TimersInit /\ NoTls /\ units = 0 /\ NoTranslator /\ NoPage /\ NoLive
  \/ part = "tls" /\ TlsInit /\ NoTimers /\ units = 0 /\ NoTranslator /\ NoPage /\ NoLive
  \/ part = "sql" /\ Sql!Init /\ NoTimers /\ NoTls /\ NoTranslator /\ NoPage /\ NoLive
  \/ part = "translator" /\ TranslatorInit
       /\ NoTimers /\ NoTls /\ units = 0 /\ NoPage /\ NoLive
  \/ part = "page" /\ Pages!PageInit /\ NoTimers /\ NoTls /\ units = 0 /\ NoLive
  \/ part = "live" /\ LiveInit /\ NoTimers /\ NoTls /\ units = 0 /\ NoTranslator /\ NoPage

Next ==
  \/ part = "timers" /\ TimersNext
       /\ UNCHANGED <<part, tlsVars, units, translatorVars, pageVars, liveVars>>
  \/ part = "tls" /\ TlsNext
       /\ UNCHANGED <<part, timerVars, units, translatorVars, pageVars, liveVars>>
  \/ part = "sql" /\ Sql!Next
       /\ UNCHANGED <<part, timerVars, tlsVars, translatorVars, pageVars, liveVars>>
  \/ part = "translator" /\ TranslatorNext
       /\ UNCHANGED <<part, timerVars, tlsVars, units, pageVars, liveVars>>
  \/ part = "page" /\ Pages!PageNext /\ UNCHANGED <<part, timerVars, tlsVars, units, liveVars>>
  \/ part = "live" /\ LiveNext
       /\ UNCHANGED <<part, timerVars, tlsVars, units, translatorVars, pageVars>>

Spec == Init /\ [][Next]_<<part, timerVars, tlsVars, units, translatorVars, pageVars, liveVars>>

\* The properties that hold only of their own module's behaviours; TimersOrdered,
\* NeverStalls, TranslationsWhole and Settled hold of the others' states too.
StatementText == part = "sql" => Sql!StatementText
PageExact == part = "page" => Pages!PageExact
=============================================================================
