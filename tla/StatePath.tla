------------------------------ MODULE StatePath ------------------------------
(***************************************************************************)
(* How State (state.rs) reads and writes values along a path.  Keys and    *)
(* segments of a path are texts, so a key that merely contains a dot       *)
(* differs from a path.                                                    *)
(***************************************************************************)
EXTENDS Values

CONSTANTS
  Digits,         \* the digit tokens, a function from tokens to numbers
  MaxPathDepth    \* MAX_PATH_DEPTH, 64 in the code

ASSUME DigitsAssumption ==
  /\ IsInjective(Digits) /\ \A t \in DOMAIN Digits : Digits[t] \in Nat
  /\ MaxPathDepth \in Nat

-----------------------------------------------------------------------------
(* Paths.                                                                  *)

\* The segment read so far ends, unless it is empty.
Close(s) ==
  [s EXCEPT !.parts = IF s.current = <<>> THEN @ ELSE Append(@, s.current), !.current = <<>>]

\* What the next character does to the segments read so far; inside brackets
\* a dot is part of the name.
Accept(s, t) ==
  CASE t = "." /\ ~s.bracket -> Close(s)
    [] t = "["               -> [Close(s) EXCEPT !.bracket = TRUE]
    [] t = "]"               -> [Close(s) EXCEPT !.bracket = FALSE]
    [] OTHER                 -> [s EXCEPT !.current = Append(@, t)]

\* split_path
SplitPath(text) ==
  LET Read[k \in 0 .. Len(text)] ==
        IF k = 0 THEN [parts |-> <<>>, current |-> <<>>, bracket |-> FALSE]
                 ELSE Accept(Read[k - 1], text[k])
  IN  Close(Read[Len(text)]).parts

\* `parse::<usize>()` of a segment succeeds.
IsIndex(segment) == Len(segment) = 1 /\ Head(segment) \in DOMAIN Digits
IndexOf(segment) == Digits[Head(segment)]

-----------------------------------------------------------------------------
(* Reading.                                                                *)

\* One segment further into a value.
Descend(v, segment) ==
  CASE v.type = "obj" -> Field(v.fields, segment)
    [] v.type = "list" /\ IsIndex(segment) /\ IndexOf(segment) < Len(v.items)
         -> v.items[IndexOf(segment) + 1]
    [] OTHER -> None

\* What stands after each of the segments.
Along(fields, parts) ==
  LET At[k \in 0 .. Len(parts)] ==
        IF k = 0 THEN VObj(fields) ELSE Descend(At[k - 1], parts[k])
  IN  At

Walk(fields, parts) == Along(fields, parts)[Len(parts)]

\* State::get_path: the empty path is a key of its own, or the whole state.
GetPath(data, path) ==
  IF path = <<>>
    THEN IF <<>> \in DOMAIN data THEN data[<<>>] ELSE VObj(data)
    ELSE LET parts == SplitPath(path)
         IN  IF parts = <<>> THEN None ELSE Walk(data, parts)

-----------------------------------------------------------------------------
(* Writing.                                                                *)

\* The list with v at an index, filled up with Null on the way.
Extended(items, index, v) ==
  [k \in 1 .. (IF index < Len(items) THEN Len(items) ELSE index + 1) |->
     IF k = index + 1 THEN v ELSE IF k <= Len(items) THEN items[k] ELSE VNull]

ListKeys(fields) == {k \in DOMAIN fields : fields[k].type = "list"}
TheList(fields) == CHOOSE k \in ListKeys(fields) : TRUE

\* set_array_element_by_index finds exactly one list, long enough or extended
\* by the last segment.
IndexFits(fields, parts) ==
  /\ Cardinality(ListKeys(fields)) = 1
  /\ Len(parts) = 1 \/ IndexOf(Head(parts)) < Len(fields[TheList(fields)].items)

\* The write leaves everything as it is: an index without a list to apply it
\* to, or a name applied to a list.
Ignored(fields, parts) ==
  IF IsIndex(Head(parts))
    THEN fields # NoFields /\ ~IndexFits(fields, parts)
    ELSE /\ Len(parts) > 1
         /\ Field(fields, Head(parts)).type = "list"
         /\ ~IsIndex(parts[2])

Items(v) == IF v.type = "list" THEN v.items ELSE <<>>

\* Mutant of FieldsOf: an object on the way is begun anew.
FieldsLost(v) == NoFields

\* The fields a write goes on with; what is no object starts empty.
FieldsOf(v) == IF v.type = "obj" THEN v.fields ELSE NoFields

\* After k segments, the next one is an index that follows a name, and applies
\* to what the name holds.
ToElement(old, parts, k) ==
  /\ k > 0 /\ IsIndex(parts[k + 1]) /\ ~IsIndex(parts[k])
  /\ old.type # "obj"

\* An index at the head of a path applies to the only list among the fields,
\* and where there are no fields it is also the name of a new list.
AtOnlyList(fields, segment, v) ==
  LET key == IF fields = NoFields THEN segment ELSE TheList(fields)
  IN  Put(fields, key, VList(Extended(Items(Field(fields, key)), IndexOf(segment), v)))

\* set_path_recursive: what stands after k segments when v stands after all.
Rewritten(old, parts, k, below, v) ==
  LET segment == parts[k + 1]
      fields == FieldsOf(old)
  IN  CASE ToElement(old, parts, k) ->
             VList(Extended(Items(old), IndexOf(segment), below))
        [] ~ToElement(old, parts, k) /\ Ignored(fields, SubSeq(parts, k + 1, Len(parts))) ->
             VObj(fields)
        [] ~ToElement(old, parts, k) /\ ~Ignored(fields, SubSeq(parts, k + 1, Len(parts))) ->
             VObj(IF IsIndex(segment) THEN AtOnlyList(fields, segment, v)
                                      ELSE Put(fields, segment, below))

\* The same, for every k.
AfterWrite(fields, parts, v) ==
  LET old == Along(fields, parts)
      New[k \in 0 .. Len(parts)] ==
        IF k = Len(parts) THEN v ELSE Rewritten(old[k], parts, k, New[k + 1], v)
  IN  New

SetParts(fields, parts, v) == AfterWrite(fields, parts, v)[0].fields

\* State::set_path fails on a path that is too deep.
TooDeep(path) == Len(SplitPath(path)) > MaxPathDepth

\* State::set_path on the data; a single segment is a key, even if it is a number.
SetPath(data, path, v) ==
  LET parts == SplitPath(path)
  IN  CASE path = <<>>                     -> Put(data, <<>>, v)
        [] path # <<>> /\ parts = <<>>     -> data
        [] path # <<>> /\ Len(parts) = 1  -> Put(data, Head(parts), v)
        [] path # <<>> /\ Len(parts) > 1  -> SetParts(data, parts, v)

\* Mutant of Counted: a write below the top level goes without.
CountedAtTop(data, path) == Len(SplitPath(path)) <= 1

\* The version counts every write that was not ignored, whatever it changed.
Counted(data, path) ==
  LET parts == SplitPath(path)
  IN  path = <<>> \/ Len(parts) = 1 \/ (Len(parts) > 1 /\ ~Ignored(data, parts))

-----------------------------------------------------------------------------
(* What a write promises.                                                  *)

\* Parts name a place of the state: an index follows a name, applies to no
\* object and a name to no list, as far as the path exists.
IsPlace(data, parts) ==
  /\ parts # <<>>
  /\ \A k \in DOMAIN parts :
       IsIndex(parts[k]) => Len(parts) = 1 \/ (k > 1 /\ ~IsIndex(parts[k - 1]))
  /\ \A k \in 2 .. Len(parts) :
       LET above == Walk(data, SubSeq(parts, 1, k - 1))
       IN  above.type # (IF IsIndex(parts[k]) THEN "obj" ELSE "list")

\* The write is read back where it was made.
ReadsBack(data, after, path, v) ==
  GetPath(after, path) = v

\* A path that does not lead through the place written to reads as before,
\* except for the Null of a list that was filled up on the way.
Frame(data, after, parts, other) ==
  \/ IsPrefix(parts, other) \/ IsPrefix(other, parts)
  \/ Walk(after, other) = Walk(data, other)
  \/ Walk(data, other) = None /\ Walk(after, other) = VNull
=============================================================================
