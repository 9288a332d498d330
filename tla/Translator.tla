----------------------------- MODULE Translator -----------------------------
(***************************************************************************)
(* The translator (src/src/sw_translator.c): languages that are registered,*)
(* one of which is current, and for each language the table of the file    *)
(* loaded last.  Texts of the tables are opaque; a JSON value that is no   *)
(* string is Bad.  Languages are never removed, so a handle is an index.   *)
(***************************************************************************)
EXTENDS Integers, Sequences, SequencesExt, FiniteSets, FiniteSetsExt

CONSTANTS
  Languages,       \* what programs register: [code, direction]
  Tables,          \* files with one language's table: sequences of [name, value]
  GroupFiles,      \* files with all: sequences of [name, object, value], the value
                   \* of an object being a sequence of [name, value], one for each code
  ValidCodes,      \* the codes a file of groups may have
  MaxCalls         \* bound

VARIABLES
  translator,      \* [languages, current, translations]
  told,            \* for each code, the pairs it was last told: a set of [name, value]
  chosen,          \* the code chosen last
  calls

translatorVars == <<translator, told, chosen, calls>>

Bad == <<"bad">>
Pairs(members) == {members[i] : i \in DOMAIN members}
Codes == {l.code : l \in Languages} \cup ValidCodes
DefaultDirection == "ltr"

ASSUME LanguagesAssumption == Languages \subseteq [code : STRING, direction : STRING]
ASSUME FilesAssumption ==
  /\ \A t \in Tables : t \in Seq(Pairs(t))
  /\ \A f \in GroupFiles :
       f \in Seq(Pairs(f)) /\ \A g \in Pairs(f) : g.object => g.value \in Seq(Pairs(g.value))

-----------------------------------------------------------------------------
(* Languages and tables.                                                    *)

\* The first entry with that code, or 0.
Find(entries, code) ==
  LET at == {i \in DOMAIN entries : entries[i].code = code}
  IN  IF at = {} THEN 0 ELSE Min(at)

\* sw_translator_upsert_registered_language: a new entry, or the old one's place.
\* Mutant: a language registered again goes to the end, where no handle is.
UpsertMoved(t, language) ==
  LET at == Find(t.languages, language.code)
      others == IF at = 0 THEN t.languages ELSE RemoveAt(t.languages, at)
  IN  [t EXCEPT !.languages = Append(others, language),
                !.current = IF @ = 0 THEN Len(others) + 1 ELSE @]
Upsert(t, language) ==
  LET at == Find(t.languages, language.code)
  IN  IF at # 0 THEN [t EXCEPT !.languages[at] = language]
      ELSE [t EXCEPT !.languages = Append(@, language),
                     !.current = IF @ = 0 THEN Len(t.languages) + 1 ELSE @]

EnsureRegistered(t, code) ==
  IF Find(t.languages, code) # 0 THEN t
  ELSE Upsert(t, [code |-> code, direction |-> DefaultDirection])

\* sw_translator_store_language: the whole table takes the old one's place.
\* Mutant: what the new table does not have stays.
StoreMerged(t, loaded) ==
  LET r == EnsureRegistered(t, loaded.code)
      at == Find(r.translations, loaded.code)
  IN  IF at = 0 THEN [r EXCEPT !.translations = Append(@, loaded)]
      ELSE [r EXCEPT !.translations[at].items = loaded.items \o @]
Store(t, loaded) ==
  LET r == EnsureRegistered(t, loaded.code)
      at == Find(r.translations, loaded.code)
  IN  IF at = 0 THEN [r EXCEPT !.translations = Append(@, loaded)]
      ELSE [r EXCEPT !.translations[at] = loaded]

\* The first n of some tables, one after the other.
Stored(t, tables, n) ==
  LET stored[k \in 0 .. n] == IF k = 0 THEN t ELSE Store(stored[k - 1], tables[k])
  IN  stored[n]
StoredAll(t, tables) == Stored(t, tables, Len(tables))

-----------------------------------------------------------------------------
(* Files.  An object whose names repeat is refused.                         *)

Once(members) == \A i, j \in DOMAIN members : members[i].name = members[j].name => i = j

\* sw_translator_build_flat_language
FlatValid(members) == Once(members) /\ \A i \in DOMAIN members : members[i].value # Bad

\* sw_translator_collect_source_groups: a table for each code, in the order the
\* codes are first met.
GroupsValid(groups) ==
  /\ Once(groups)
  /\ \A i \in DOMAIN groups :
       /\ groups[i].object
       /\ FlatValid(groups[i].value)
       /\ \A j \in DOMAIN groups[i].value : groups[i].value[j].name \in ValidCodes

AddItem(tables, code, item) ==
  IF Find(tables, code) = 0 THEN Append(tables, [code |-> code, items |-> <<item>>])
  ELSE [tables EXCEPT ![Find(tables, code)].items = Append(@, item)]

AddGroup(tables, g) ==
  LET added[j \in 0 .. Len(g.value)] ==
        IF j = 0 THEN tables
        ELSE AddItem(added[j - 1], g.value[j].name, [name |-> g.name, value |-> g.value[j].value])
  IN  added[Len(g.value)]

Collected(groups) ==
  LET collected[i \in 0 .. Len(groups)] ==
        IF i = 0 THEN <<>> ELSE AddGroup(collected[i - 1], groups[i])
  IN  collected[Len(groups)]

\* sw_translate, in the language of an entry.
TranslateIn(t, language, str) ==
  LET at == IF language = 0 THEN 0 ELSE Find(t.translations, t.languages[language].code)
      hits == IF at = 0 THEN {}
              ELSE {i \in DOMAIN t.translations[at].items : t.translations[at].items[i].name = str}
  IN  IF hits = {} THEN str ELSE t.translations[at].items[Min(hits)].value
Translate(t, str) == TranslateIn(t, t.current, str)

-----------------------------------------------------------------------------
(* The calls.  Each may fail for want of memory, and then changes nothing;  *)
(* a load of groups may fail between two tables, when the next one's code   *)
(* has to be registered.                                                    *)

Empty == [languages |-> <<>>, current |-> 0, translations |-> <<>>]

PairsOf(groups, code) ==
  UNION {{[name |-> groups[i].name, value |-> m.value] :
            m \in {n \in Pairs(groups[i].value) : n.name = code}} : i \in DOMAIN groups}
Mentioned(groups) == {c \in ValidCodes : PairsOf(groups, c) # {}}

\* sw_translator_create, with a file of groups; one that is not valid, or a
\* default language without a code, gives no translator.
Created(language, groups) == StoredAll(Upsert(Empty, language), Collected(groups))

CreatedFrom(groups) ==
  \E language \in Languages :
    /\ translator = Created(language, groups)
    /\ told = [c \in Codes |-> PairsOf(groups, c)]
    /\ chosen = language.code
    /\ calls = 0

\* Without a path no file is read; <<>> stands for that.
TranslatorInit == \E groups \in {<<>>} \cup {g \in GroupFiles : GroupsValid(g)} : CreatedFrom(groups)

Called == calls < MaxCalls /\ calls' = calls + 1

\* sw_translator_add
Add ==
  /\ Called
  /\ \E language \in Languages : translator' = Upsert(translator, language)
  /\ UNCHANGED <<told, chosen>>

\* sw_translator_load_json_text, with any code.
LoadText ==
  /\ Called
  /\ \E code \in Codes, members \in {t \in Tables : FlatValid(t)} :
       /\ translator' = Store(translator, [code |-> code, items |-> members])
       /\ told' = [told EXCEPT ![code] = Pairs(members)]
  /\ UNCHANGED chosen

\* sw_translator_load_all_json_text
LoadAll ==
  /\ Called
  /\ \E groups \in {g \in GroupFiles : GroupsValid(g)} :
       /\ translator' = StoredAll(translator, Collected(groups))
       /\ told' = [c \in Codes |-> IF c \in Mentioned(groups) THEN PairsOf(groups, c) ELSE told[c]]
  /\ UNCHANGED chosen

LoadAllFails ==
  /\ Called
  /\ \E groups \in {g \in GroupFiles : GroupsValid(g)} :
       \E n \in 0 .. Len(Collected(groups)) - 1 :
         LET stored == Stored(translator, Collected(groups), n)
             done == {Collected(groups)[i].code : i \in 1 .. n}
         IN  /\ Find(stored.languages, Collected(groups)[n + 1].code) = 0
             /\ translator' = stored
             /\ told' = [c \in Codes |-> IF c \in done THEN PairsOf(groups, c) ELSE told[c]]
  /\ UNCHANGED chosen

\* A file that is not valid, or memory that runs out before a table is stored.
LoadRefused ==
  /\ Called
  /\ UNCHANGED <<translator, told, chosen>>

\* sw_translator_set_language
SetLanguage ==
  /\ Called
  /\ \E code \in Codes :
       /\ Find(translator.languages, code) # 0
       /\ translator' = [translator EXCEPT !.current = Find(translator.languages, code)]
       /\ chosen' = code
  /\ UNCHANGED told

TranslatorNext == Add \/ LoadText \/ LoadAll \/ LoadAllFails \/ LoadRefused \/ SetLanguage

TranslatorSpec == TranslatorInit /\ [][TranslatorNext]_translatorVars

-----------------------------------------------------------------------------
Names == {m.name : m \in UNION {Pairs(t) : t \in Tables}}
           \cup {g.name : g \in UNION {Pairs(f) : f \in GroupFiles}}

\* The value a language was last told for a text, or the text itself.
ToldIn(code, str) ==
  LET values == {m.value : m \in {n \in told[code] : n.name = str}}
  IN  IF values = {} THEN str ELSE CHOOSE v \in values : TRUE

\* Whatever was registered again, loaded over or refused in between: the current
\* language is the one chosen last, a language that has a table can be chosen,
\* there is one entry for it, and it then speaks exactly the last table it was
\* told, all of it and nothing of an older one; no table has two values for a
\* text, or a value that is no string.
TranslationsWhole ==
  /\ \A code \in Codes : \A m, n \in told[code] : m.value # Bad /\ (m.name = n.name => m = n)
  /\ translator.languages[translator.current].code = chosen
  /\ \A code \in Codes :
       /\ told[code] # {} => Find(translator.languages, code) # 0
       /\ Cardinality({i \in DOMAIN translator.languages : translator.languages[i].code = code}) <= 1
       /\ Find(translator.languages, code) # 0 =>
            \A str \in Names :
              TranslateIn(translator, Find(translator.languages, code), str) = ToldIn(code, str)
=============================================================================
