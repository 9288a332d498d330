-------------------------------- MODULE Page --------------------------------
(***************************************************************************)
(* The HTML builder (src/src/sw_html.c) and what sw_js.c emits through it, *)
(* with the translator that puts their texts into the current language.   *)
(* Every call appends to one buffer; a stack remembers, for each open      *)
(* element, whether texts were translated before it began.                 *)
(*                                                                         *)
(* A text is a sequence of symbols; names of tags and attributes, and the  *)
(* runtime script, are one symbol each.  Appending does not fail.          *)
(***************************************************************************)
EXTENDS Translator, Texts, TLC

CONSTANTS
  RootAttrs,          \* what programs give <html>: sequences of attributes
                      \* [name, value, enabled, noTranslate, boolean]
  Attrs, VoidAttrs,   \* and what they give other elements
  Wordings,           \* their texts
  Configs,            \* what they give sw_js.c: sequences of [name, value]
  Loaded,             \* the file the translator was created with
  MaxSaid             \* bound: calls between two resets

VARIABLES
  h,               \* struct sw_buffer
  said             \* the calls since the last reset, with the language of each

pageVars == <<h, said>>

TranslationAttr == "__sw_translation__"
DirectionAttr == "__sw_direction__"
DirectionDataAttr == "data-sw-direction"
Translatable == {"title", "placeholder"}
Null == <<"NULL">>

-----------------------------------------------------------------------------
(* Texts and attributes.                                                    *)

EscapedSymbol(c, attribute) ==
  CASE c = "&" -> "&amp;" [] c = "<" -> "&lt;" [] c = ">" -> "&gt;"
    [] c = "\"" /\ attribute -> "&quot;" [] c = "'" /\ attribute -> "&#39;"
    [] OTHER -> c
Escaped(text, attribute) == [i \in DOMAIN text |-> EscapedSymbol(text[i], attribute)]

\* sw_html_translation_active and sw_html_translate_if_needed.
Active(b) == b.enabled /\ b.translated
Translated(b, text) == IF Active(b) THEN Translate(translator, text) ELSE text

Enabled(attrs, name) == {i \in DOMAIN attrs : attrs[i].enabled /\ attrs[i].name = name}
Internal == {TranslationAttr, DirectionAttr}

\* sw_html_resolve_translation_enabled and sw_html_resolve_direction: the last
\* of the attributes counts.
ResolveTranslation(b, attrs) ==
  LET at == Enabled(attrs, TranslationAttr)
  IN  IF at = {} THEN b.enabled ELSE attrs[Max(at)].value # <<"0">>

CurrentLanguage == translator.languages[translator.current]

ResolveDirection(b, tag, attrs) ==
  LET at == Enabled(attrs, DirectionAttr)
  IN  CASE at # {} -> attrs[Max(at)].value[1]
        [] at = {} /\ tag = "html" /\ Active(b) -> CurrentLanguage.direction
        [] OTHER -> "none"

DirName(direction) == IF direction = "rtl" THEN "rtl" ELSE "ltr"
DirectionStyle(direction) ==
  IF direction = "ttb" THEN <<"vertical", ";", "mixed", ";">> ELSE <<>>

Plain(name, value) ==
  [name |-> name, value |-> value, enabled |-> TRUE, noTranslate |-> FALSE, boolean |-> FALSE]

Written(name, escaped) == <<" ", name, "=", "\"">> \o escaped \o <<"\"">>

\* sw_html_append_attr.
\* Mutant: the value is escaped as a text between tags is.
AppendAttrLoose(b, attr) ==
  LET value == IF ~attr.noTranslate /\ attr.name \in Translatable
               THEN Translated(b, attr.value) ELSE attr.value
  IN  CASE ~attr.enabled \/ attr.name \in Internal -> <<>>
        [] attr.enabled /\ attr.name \notin Internal /\ attr.boolean -> <<" ", attr.name>>
        [] OTHER -> IF attr.value = <<>> THEN <<>> ELSE Written(attr.name, Escaped(value, FALSE))
AppendAttr(b, attr) ==
  LET value == IF ~attr.noTranslate /\ attr.name \in Translatable
               THEN Translated(b, attr.value) ELSE attr.value
  IN  CASE ~attr.enabled \/ attr.name \in Internal -> <<>>
        [] attr.enabled /\ attr.name \notin Internal /\ attr.boolean -> <<" ", attr.name>>
        [] OTHER -> IF attr.value = <<>> THEN <<>> ELSE Written(attr.name, Escaped(value, TRUE))

\* sw_html_style_needs_separator and sw_html_append_style_attr.
NeedsSeparator(value) ==
  LET kept == {i \in DOMAIN value : value[i] # " "}
  IN  kept # {} /\ value[Max(kept)] # ";"
AppendStyle(attr, extra) ==
  Written("style", Escaped(attr.value, TRUE)
                     \o (IF attr.value # <<>> /\ NeedsSeparator(attr.value) THEN <<";">> ELSE <<>>)
                     \o Escaped(extra, TRUE))

\* sw_html_append_auto_root_attrs
AppendAutoRootAttrs(b, tag, attrs) ==
  IF tag = "html" /\ Active(b) /\ Enabled(attrs, "lang") = {}
  THEN AppendAttr(b, Plain("lang", <<CurrentLanguage.code>>)) ELSE <<>>

\* sw_html_append_attrs
AppendAttrs(b, attrs, direction) ==
  LET extra == DirectionStyle(direction)
      dir == IF direction # "none" /\ Enabled(attrs, "dir") = {}
             THEN AppendAttr(b, Plain("dir", <<DirName(direction)>>)) ELSE <<>>
      data == IF Enabled(attrs, DirectionAttr) # {} /\ Enabled(attrs, DirectionDataAttr) = {}
              THEN AppendAttr(b, Plain(DirectionDataAttr, <<direction>>)) ELSE <<>>
      each == [i \in DOMAIN attrs |->
                 IF extra # <<>> /\ i \in Enabled(attrs, "style") THEN AppendStyle(attrs[i], extra)
                 ELSE AppendAttr(b, attrs[i])]
      style == IF extra # <<>> /\ Enabled(attrs, "style") = {}
               THEN AppendAttr(b, Plain("style", extra)) ELSE <<>>
  IN  dir \o data \o FlattenSeq(each) \o style

-----------------------------------------------------------------------------
(* The buffer.                                                              *)

Append2(b, symbols) == [b EXCEPT !.bytes = @ \o symbols]

\* sw_buffer_new, and sw_buffer_reset, which keeps the translator.
\* Mutant: the runtime is taken to be in the page still.
ResetKeeping(b) == [b EXCEPT !.bytes = <<>>, !.stack = <<>>, !.enabled = TRUE, !.doctype = FALSE]
Reset(b) ==
  [b EXCEPT !.bytes = <<>>, !.stack = <<>>, !.enabled = TRUE, !.doctype = FALSE, !.runtime = FALSE]

\* sw_html_maybe_emit_doctype
EmitDoctype(b, tag) ==
  IF tag = "html" /\ ~b.doctype /\ b.bytes = <<>>
  THEN [Append2(b, <<"<!doctype html>">>) EXCEPT !.doctype = TRUE] ELSE b

\* The stack of translation scopes.
PushScope(b, previous) == [b EXCEPT !.stack = Append(@, previous)]
PopScope(b) ==
  IF b.stack = <<>> THEN b ELSE [b EXCEPT !.enabled = Last(b.stack), !.stack = Front(b.stack)]

\* sw_html_open_tag, for sw_tag (push) and sw_void.
OpenTag(b, tag, attrs, push) ==
  LET inside == EmitDoctype([b EXCEPT !.enabled = ResolveTranslation(b, attrs)], tag)
      opened == Append2(inside, <<"<", tag>>
                  \o AppendAutoRootAttrs(inside, tag, attrs)
                  \o AppendAttrs(inside, attrs, ResolveDirection(b, tag, attrs)) \o <<">">>)
  IN  IF push THEN PushScope(opened, b.enabled) ELSE [opened EXCEPT !.enabled = b.enabled]

\* sw_end
End(b, tag) == PopScope(Append2(b, <<"<", "/", tag, ">">>))

\* sw_text, sw_text_no_translate, sw_buffer_set_translation.
Text(b, text) == Append2(b, Escaped(Translated(b, text), FALSE))
TextNoTranslate(b, text) == Append2(b, Escaped(text, FALSE))
SetTranslation(b, on) == [b EXCEPT !.enabled = on]

-----------------------------------------------------------------------------
(* sw_js.c: the runtime once in a page, and initializers with their options.*)

JsSymbol(c) ==
  CASE c = "\\" -> <<"\\", "\\">> [] c = "\"" -> <<"\\", "\"">>
    [] c = "'" -> <<"\\", "x27">> [] c = "<" -> <<"\\", "x3C">>
    [] OTHER -> <<c>>
JsString(value) == <<"\"">> \o FlattenSeq([i \in DOMAIN value |-> JsSymbol(value[i])]) \o <<"\"">>
JsField(f) == JsString(<<f.name>>) \o <<":">> \o (IF f.value = Null THEN <<"null">> ELSE JsString(f.value))
JsConfig(fields) ==
  <<"{">> \o FlattenSeq([i \in DOMAIN fields |-> (IF i = 1 THEN <<>> ELSE <<",">>) \o JsField(fields[i])])
          \o <<"}">>

Script(b, kind, body) ==
  End(Append2(OpenTag(b, "script", <<Plain("data-swjs", <<kind>>)>>, TRUE), body), "script")

\* sw_js_runtime and sw_js_emit_initializer.
JsRuntime(b) ==
  IF b.runtime THEN b ELSE [Script(b, "runtime", <<"runtime">>) EXCEPT !.runtime = TRUE]
JsInitializer(b, fields) == Script(JsRuntime(b), "helper", <<"call">> \o JsConfig(fields))

-----------------------------------------------------------------------------
(* A program that builds pages: its elements end in the order they began.   *)

\* The elements open after the first n calls, as the calls that began them.
RECURSIVE OpenAfter(_)
OpenAfter(n) ==
  IF n = 0 THEN <<>>
  ELSE CASE said[n].op = "begin" -> Append(OpenAfter(n - 1), n)
         [] said[n].op = "end" -> Front(OpenAfter(n - 1))
         [] OTHER -> OpenAfter(n - 1)

Say(call) ==
  /\ Len(said) < MaxSaid
  /\ said' = Append(said, [lang |-> chosen, direction |-> CurrentLanguage.direction] @@ call)
  /\ UNCHANGED translatorVars

PageInit ==
  /\ CreatedFrom(Loaded)
  /\ said = <<>>
  /\ \E t \in BOOLEAN : h = [bytes |-> <<>>, stack |-> <<>>, enabled |-> TRUE, doctype |-> FALSE,
                             runtime |-> FALSE, translated |-> t]

SayBegin ==
  \/ /\ said = <<>>
     /\ \E a \in RootAttrs : /\ Say([op |-> "begin", tag |-> "html", attrs |-> a])
                             /\ h' = OpenTag(h, "html", a, TRUE)
  \/ \E a \in Attrs : /\ Say([op |-> "begin", tag |-> "div", attrs |-> a])
                      /\ h' = OpenTag(h, "div", a, TRUE)

SayEnd ==
  LET open == OpenAfter(Len(said))
  IN  /\ open # <<>>
      /\ Say([op |-> "end", tag |-> said[Last(open)].tag])
      /\ h' = End(h, said[Last(open)].tag)

SayVoid ==
  \E a \in VoidAttrs : /\ Say([op |-> "void", tag |-> "br", attrs |-> a])
                       /\ h' = OpenTag(h, "br", a, FALSE)

SayText ==
  \E t \in Wordings :
    \/ Say([op |-> "text", text |-> t]) /\ h' = Text(h, t)
    \/ Say([op |-> "plain", text |-> t]) /\ h' = TextNoTranslate(h, t)

SaySet == \E on \in BOOLEAN : Say([op |-> "set", on |-> on]) /\ h' = SetTranslation(h, on)

SayScript == \E f \in Configs : Say([op |-> "script", fields |-> f]) /\ h' = JsInitializer(h, f)

StartAgain ==
  /\ said # <<>>
  /\ said' = <<>>
  /\ h' = Reset(h)
  /\ Called
  /\ UNCHANGED <<translator, told, chosen>>

Speak == SetLanguage /\ UNCHANGED pageVars

PageNext ==
  \/ Speak \/ StartAgain
  \/ SayBegin \/ SayEnd \/ SayVoid \/ SayText \/ SaySet \/ SayScript

PageSpec == PageInit /\ [][PageNext]_<<translatorVars, pageVars>>

-----------------------------------------------------------------------------
(* A browser: what it finds in a page, symbol by symbol and tag by tag.     *)

Unescaped(c) ==
  CASE c = "&amp;" -> "&" [] c = "&lt;" -> "<" [] c = "&gt;" -> ">"
    [] c = "&quot;" -> "\"" [] c = "&#39;" -> "'" [] OTHER -> c

UpTo(b, i, c) == Min({j \in i .. Len(b) : b[j] = c} \cup {Len(b) + 1})

\* The attributes from position i of a tag, up to its ">".
RECURSIVE AttrsAt(_, _)
AttrsAt(b, i) ==
  IF i > Len(b) \/ b[i] = ">" THEN [attrs |-> <<>>, next |-> i + 1]
  ELSE LET valued == i + 3 <= Len(b) /\ b[i + 2] = "="
           close == UpTo(b, i + 4, "\"")
           value == [k \in 1 .. close - i - 4 |-> Unescaped(b[i + 3 + k])]
           rest == AttrsAt(b, IF valued THEN close + 1 ELSE i + 2)
       IN  [rest EXCEPT !.attrs = <<[name |-> b[i + 1], value |-> IF valued THEN value ELSE Null]>> \o @]

\* A string of the script, read as JavaScript reads it.
RECURSIVE JsRead(_)
JsRead(t) ==
  CASE t = <<>> -> <<>>
    [] t # <<>> /\ Head(t) = "\\" ->
         <<CASE t[2] = "x27" -> "'" [] t[2] = "x3C" -> "<" [] OTHER -> t[2]>> \o JsRead(From(t, 3))
    [] t # <<>> /\ Head(t) = "\"" -> <<"quote">> \o JsRead(Tail(t))
    [] OTHER -> <<Head(t)>> \o JsRead(Tail(t))

Events(text) == [i \in DOMAIN text |-> [text |-> text[i]]]

RECURSIVE Seen(_)
Seen(b) ==
  CASE b = <<>> -> <<>>
    [] b # <<>> /\ Head(b) = "<" /\ b[2] = "/" -> <<[end |-> b[3]]>> \o Seen(From(b, 5))
    [] b # <<>> /\ Head(b) = "<" /\ b[2] # "/" ->
         LET tag == AttrsAt(b, 3)
             body == From(b, tag.next)
             last == UpTo(body, 1, "<") - 1
         IN  <<[begin |-> b[2], attrs |-> tag.attrs]>>
               \o (IF b[2] = "script" THEN <<[script |-> JsRead(SubSeq(body, 1, last))]>>
                                              \o Seen(From(body, last + 1))
                   ELSE Seen(body))
    [] OTHER -> Events(<<Unescaped(Head(b))>>) \o Seen(Tail(b))

-----------------------------------------------------------------------------
(* What the calls mean.                                                     *)

\* Whether texts of the i-th call are translated: the latest setting counts that
\* is a call, or an attribute, in an element still open; at first they are.
Setting(i) ==
  IF said[i].op = "set" THEN <<said[i].on>>
  ELSE IF said[i].op \in {"begin", "void"} /\ Enabled(said[i].attrs, TranslationAttr) # {}
       THEN <<said[i].attrs[Max(Enabled(said[i].attrs, TranslationAttr))].value # <<"0">>>>
       ELSE <<>>
InForce(j, i) ==
  /\ Setting(j) # <<>>
  /\ said[j].op = "void" => j = i
  /\ IsPrefix(OpenAfter(j), OpenAfter(i))
IsOn(i) ==
  LET at == {j \in 1 .. i : InForce(j, i)}
  IN  h.translated /\ (at = {} \/ Setting(Max(at))[1])

Meant(i, text) == IF IsOn(i) THEN ToldIn(said[i].lang, text) ELSE text

Declarations(value) ==
  LET cuts == {0, Len(value) + 1} \cup {i \in DOMAIN value : value[i] = ";"}
      piece(i) == SelectSeq(SubSeq(value, i + 1, Min({j \in cuts : j > i}) - 1), LAMBDA c : c # " ")
  IN  {piece(i) : i \in cuts \ {Len(value) + 1}} \ {<<>>}

\* The attributes of an element, by name, those for its direction included.
MeantAttrs(i) ==
  LET attrs == said[i].attrs
      own == {k \in DOMAIN attrs : attrs[k].enabled /\ attrs[k].name \notin Internal
                                    /\ (attrs[k].boolean \/ attrs[k].value # <<>>)}
      value(k) == CASE attrs[k].boolean -> Null
                    [] ~attrs[k].boolean /\ attrs[k].name \in Translatable /\ ~attrs[k].noTranslate ->
                         Meant(i, attrs[k].value)
                    [] OTHER -> attrs[k].value
      root == said[i].tag = "html" /\ IsOn(i)
      asked == Enabled(attrs, DirectionAttr)
      direction == IF asked # {} THEN attrs[Max(asked)].value[1] ELSE said[i].direction
      directed == root \/ asked # {}
      named == {attrs[k].name : k \in own}
      style == UNION {Declarations(attrs[k].value) : k \in {n \in own : attrs[n].name = "style"}}
                 \cup (IF directed /\ direction = "ttb" THEN {<<"vertical">>, <<"mixed">>} ELSE {})
  IN  {<<attrs[k].name, value(k)>> : k \in {n \in own : attrs[n].name # "style"}}
        \cup (IF style = {} THEN {} ELSE {<<"style", style>>})
        \cup (IF root /\ "lang" \notin named THEN {<<"lang", <<said[i].lang>>>>} ELSE {})
        \cup (IF directed /\ "dir" \notin named THEN {<<"dir", <<DirName(direction)>>>>} ELSE {})
        \cup (IF asked # {} THEN {<<DirectionDataAttr, <<direction>>>>} ELSE {})

\* The fields of a script's options, as JsRead leaves them.
MeantScript(fields) ==
  LET quoted(t) == <<"quote">> \o t \o <<"quote">>
  IN  <<"call", "{">>
        \o FlattenSeq([k \in DOMAIN fields |->
             (IF k = 1 THEN <<>> ELSE <<",">>) \o quoted(<<fields[k].name>>) \o <<":">>
               \o (IF fields[k].value = Null THEN <<"null">> ELSE quoted(fields[k].value))])
        \o <<"}">>

ScriptElement(kind, body) ==
  <<[begin |-> "script", attrs |-> {<<"data-swjs", <<kind>>>>}], [script |-> body], [end |-> "script"]>>

MeantCall(i) ==
  LET c == said[i]
      first == \A j \in 1 .. i - 1 : said[j].op # "script"
  IN  CASE c.op \in {"begin", "void"} ->
             (IF i = 1 /\ c.tag = "html" THEN Events(<<"<!doctype html>">>) ELSE <<>>)
               \o <<[begin |-> c.tag, attrs |-> MeantAttrs(i)]>>
        [] c.op = "end" -> <<[end |-> c.tag]>>
        [] c.op = "text" -> Events(Meant(i, c.text))
        [] c.op = "plain" -> Events(c.text)
        [] c.op = "set" -> <<>>
        [] c.op = "script" -> (IF first THEN ScriptElement("runtime", <<"runtime">>) ELSE <<>>)
                                \o ScriptElement("helper", MeantScript(c.fields))

\* No attribute is written twice; a style counts as its declarations.
AsSet(attrs) ==
  {IF a.name = "style" THEN <<"style", Declarations(a.value)>> ELSE <<a.name, a.value>> : a \in ToSet(attrs)}
Distinct(attrs) == \A i, j \in DOMAIN attrs : attrs[i].name = attrs[j].name => i = j

\* A browser that reads the page finds the elements, attributes, texts and
\* scripts of the calls and nothing else, whatever symbols the texts hold: each
\* text in the language current at its call, if the innermost setting that is
\* still in force lets it be translated, and the runtime once, before it is used.
PageExact ==
  LET seen == Seen(h.bytes)
      event(e) == IF "begin" \in DOMAIN e THEN [e EXCEPT !.attrs = AsSet(@)] ELSE e
  IN  /\ [i \in DOMAIN seen |-> event(seen[i])] = FlattenSeq([i \in DOMAIN said |-> MeantCall(i)])
      /\ \A i \in DOMAIN seen : "begin" \in DOMAIN seen[i] => Distinct(seen[i].attrs)
=============================================================================
