---------------------------- MODULE RequestPath -----------------------------
(***************************************************************************)
(* sw_http_serve_path (src/src/sw_server.c): the path of a request is      *)
(* decoded and taken apart, put together again below the directory the     *)
(* program serves, resolved by the system, and answered with the file      *)
(* found there if it lies in that directory.                               *)
(*                                                                         *)
(* The path is written token by token; each token stands for one symbol,   *)
(* so that what the client means is known without decoding.                *)
(***************************************************************************)
EXTENDS Texts

CONSTANTS
  Tokens,          \* how a client may write a symbol: [text, means]
  MaxPath,       \* bound
  Roots,           \* the docroots programs give, as the system resolves them
  Tree,            \* the system's files: their resolved names, by the name used
  Directories,     \* the resolved names that are directories
  PathCap          \* the size of the path buffers

VARIABLES
  root,            \* docroot_real, or Missing
  tokens           \* the path, as written so far

vars == <<root, tokens>>

Separator == {"/", "\\"}
Missing == <<>>

Written == FlattenSeq([i \in DOMAIN tokens |-> tokens[i].text])

-----------------------------------------------------------------------------
(* sw_decode_request_path.                                                  *)

\* The byte two hexadecimal digits stand for, as far as it matters here.
Hex == {"0", "2", "5", "e", "f", "c"}
Escaped(hi, lo) ==
  CASE <<hi, lo>> = <<"2", "e">> -> "." [] <<hi, lo>> = <<"2", "f">> -> "/"
    [] <<hi, lo>> = <<"5", "c">> -> "\\" [] <<hi, lo>> = <<"0", "0">> -> "NUL"
    [] <<hi, lo>> = <<"2", "5">> -> "%"
    [] OTHER -> "?"

\* sw_http_path_length: the query is not part of the path.
PathOf(uri) == Pieces(uri, {"?"})[1]

\* An escape that is cut short or has no digits is as bad as a zero byte.
RECURSIVE Decoded(_)
Decoded(t) ==
  CASE t = <<>> -> <<>>
    [] t # <<>> /\ Head(t) # "%" -> <<Head(t)>> \o Decoded(Tail(t))
    [] OTHER -> IF Len(t) >= 3 /\ {t[2], t[3]} \subseteq Hex
                THEN <<Escaped(t[2], t[3])>> \o Decoded(From(t, 4))
                ELSE <<"NUL">>

\* Mutant: the segments are looked at before they are decoded.
SegmentsRaw(t) == [i \in DOMAIN Pieces(t, Separator) |-> Decoded(Pieces(t, Separator)[i])]
Segments(t) == Pieces(Decoded(t), Separator)

Names(t) == SelectSeq(Segments(PathOf(t)), LAMBDA s : s # <<>> /\ s # <<".">>)

Joined(names) == FlattenSeq([i \in DOMAIN names |-> IF i = 1 THEN names[i] ELSE <<"/">> \o names[i]])

Decodable(t) ==
  /\ \A i \in DOMAIN Segments(PathOf(t)) : "NUL" \notin ToSet(Segments(PathOf(t))[i])
  /\ <<".", ".">> \notin ToSet(Names(t))
  /\ Names(t) # <<>>
  /\ Len(Joined(Names(t))) < PathCap

-----------------------------------------------------------------------------
(* sw_http_serve_path and sw_http_send_file.                                *)

\* sw_path_join.
Under(lhs, rhs) == lhs \o (IF Last(lhs) \in Separator THEN <<>> ELSE <<"/">>) \o rhs

\* realpath and stat: the resolved name of a file, or Missing.
Resolved(path) == IF path \in DOMAIN Tree THEN Tree[path] ELSE Missing

\* sw_path_has_prefix: below the directory, not merely beginning like it.
\* Mutant: any name that begins like the directory's is below it.
HasPrefixLoose(path, prefix) == IsPrefix(prefix, path)
HasPrefix(path, prefix) ==
  /\ IsPrefix(prefix, path)
  /\ \/ path = prefix
     \/ Last(prefix) \in Separator
     \/ path[Len(prefix) + 1] \in Separator

Answer(status, file) == [status |-> status, file |-> file]

SendFile(path) == IF path \in Directories THEN Answer(403, Missing) ELSE Answer(200, path)

ServePath(uri) ==
  LET joined == Under(root, Joined(Names(uri)))
      target == Resolved(joined)
  IN  CASE root = Missing -> Answer(500, Missing)
        [] root # Missing /\ ~Decodable(uri) -> Answer(403, Missing)
        [] OTHER -> IF Len(joined) >= PathCap \/ target = Missing THEN Answer(404, Missing)
                    ELSE IF HasPrefix(target, root) THEN SendFile(target)
                    ELSE Answer(403, Missing)

-----------------------------------------------------------------------------
Init ==
  /\ root \in Roots \cup {Missing}
  /\ tokens = <<>>

Write ==
  /\ Len(tokens) < MaxPath
  /\ \E k \in Tokens : tokens' = Append(tokens, k)
  /\ UNCHANGED root

Next == Write

Spec == Init /\ [][Next]_vars

-----------------------------------------------------------------------------
(* What a client and the program may count on.                              *)

\* The names of the path as the client means it.
Meant ==
  LET query == {i \in DOMAIN tokens : tokens[i].text = <<"?">>}
      path == IF query = {} THEN tokens ELSE SubSeq(tokens, 1, Min(query) - 1)
      said == [i \in DOMAIN path |-> path[i].means]
  IN  SelectSeq(Pieces(said, Separator), LAMBDA s : s # <<>> /\ s # <<".">>)

NamesOf(path) == SelectSeq(Pieces(path, {"/"}), LAMBDA s : s # <<>>)

\* Exactly the files are sent whose path, however it is written, climbs out of
\* no directory and names a file that the system finds inside the docroot; no
\* other file of the system is ever sent.
PathServed ==
  LET answer == ServePath(Written)
      files == {p \in DOMAIN Tree : NamesOf(p) = NamesOf(root) \o Meant}
      inside == {p \in files : /\ <<".", ".">> \notin ToSet(Meant)
                               /\ Tree[p] \notin Directories
                               /\ IsPrefix(NamesOf(root), NamesOf(Tree[p]))}
  IN  /\ answer.status = 200 => \E p \in inside : answer.file = Tree[p]
      /\ root # Missing /\ inside # {} /\ Len(root) + 1 + Len(Joined(Meant)) < PathCap => answer.status = 200
=============================================================================
