---------------------------- MODULE ConfigOverrides ----------------------------
(***************************************************************************)
(* The configuration files in the ConfigMaps (config_map_builder.go): the      *)
(* generated document, with the user's overrides merged into it level by level *)
(* (pkg/ypatch/ordered.go), as last written by a component that was allowed to *)
(* write.                                                                     *)
(***************************************************************************)
EXTENDS Integers, Sequences, SequencesExt, FiniteSets

CONSTANTS
  Generated,       \* documents the generator may produce
  OverrideDocs,    \* documents the overrides may hold
  MaxChanges       \* bound: changes of the specification and of the overrides

ASSUME OverrideAssumption == MaxChanges \in Nat

-----------------------------------------------------------------------------
(* YSON documents.  A literal stands for everything that is replaced as a      *)
(* whole: numbers, strings, lists, the entity.  A map remembers the order of   *)
(* its keys, as the file shows it.                                             *)

Leaf(n) == [type |-> "literal", value |-> n]
MapOf(keys, values) == [type |-> "map", keys |-> keys, values |-> values]
EmptyMap == MapOf(<<>>, [k \in {} |-> Leaf(0)])
Attributed(attributes, value) ==
  [type |-> "attributed", attributes |-> attributes, value |-> value]
Unparsable == [type |-> "broken"]
SomeText == [type |-> "text"]

(* OrderedMap.Set: a key keeps its position.                                   *)
SetKey(m, key, value) ==
  MapOf(IF key \in DOMAIN m.values THEN m.keys ELSE Append(m.keys, key),
        [k \in DOMAIN m.values \union {key} |-> IF k = key THEN value ELSE m.values[k]])

(* decodeInto: a document is decoded into what is there already.  Maps are     *)
(* merged; attributes are merged, and kept when the new value has none;        *)
(* anything else is replaced.                                                  *)
DecodeOver(old, new) == new

RECURSIVE DecodeInto(_, _)
UnmarshalBody(old, new) ==
  FoldLeft(LAMBDA m, key :
             SetKey(m, key, IF key \in DOMAIN m.values THEN DecodeInto(m.values[key], new.values[key])
                            ELSE new.values[key]),
           old, new.keys)
UnmarshalValue(old, new) ==
  IF new.type = "attributed"
  THEN Attributed(UnmarshalBody(old.attributes, new.attributes), DecodeInto(old.value, new.value))
  ELSE Attributed(old.attributes, DecodeInto(old.value, new))
DecodeInto(old, new) ==
  CASE old.type = "attributed" -> UnmarshalValue(old, new)
    [] old.type = "map" /\ new.type = "map" -> UnmarshalBody(old, new)
    [] old.type = "map" /\ new.type = "attributed" -> UnmarshalValue(Attributed(EmptyMap, old), new)
    [] OTHER -> new

-----------------------------------------------------------------------------
(* The levels of overrides, in the order in which getConfig applies them:      *)
(* for all servers, for this kind of file, for the file of this component.     *)
(* YAML has no attributes.                                                     *)

YsonLevels == <<"all.yaml", "all.yson", "config.yaml", "config.yson", "name--config.yaml", "name--config.yson">>
TextLevels == <<"HEADER-", "FOOTER-", "name--HEADER-", "name--FOOTER-">>
YamlLevels == {"all.yaml", "config.yaml", "name--config.yaml"}

RECURSIVE IsPlain(_)
IsPlain(doc) ==
  CASE doc.type = "map" -> \A k \in DOMAIN doc.values : IsPlain(doc.values[k])
    [] OTHER -> doc.type # "attributed"

VARIABLES
  generated,   \* what the generator produces for the specification
  overrides,   \* the ConfigMap with the overrides: level -> document
  format,      \* format of the file
  file,        \* the file in the component's ConfigMap
  changes

configVars == <<generated, overrides, format, file, changes>>

(* A file: texts before, the document, texts after.                            *)
NoFile == [head |-> <<>>, body |-> EmptyMap, foot |-> <<>>]
CannotBuild == [head |-> <<>>, body |-> Unparsable, foot |-> <<>>]

(* overrideYsonConfigs.                                                        *)
OverrideConfig(f, level) ==
  CASE level \in {"HEADER-", "name--HEADER-"} -> [f EXCEPT !.head = <<level>> \o @]
    [] level \in {"FOOTER-", "name--FOOTER-"} -> [f EXCEPT !.foot = @ \o <<level>>]
    [] overrides[level] = Unparsable -> CannotBuild
    [] OTHER -> [f EXCEPT !.body = DecodeInto(@, overrides[level])]

(* getConfig.  A file that is converted from YSON must be YSON alone: with a   *)
(* header or a footer it cannot be parsed.                                     *)
GetConfig ==
  LET Override(f, level) ==
        IF level \in DOMAIN overrides /\ f # CannotBuild THEN OverrideConfig(f, level) ELSE f
      all == FoldLeft(Override, [NoFile EXCEPT !.body = generated], YsonLevels \o TextLevels)
  IN  IF format # "yson" /\ (all.head # <<>> \/ all.foot # <<>>) THEN CannotBuild ELSE all

(* needReload, Build and Sync: a configuration that cannot be built changes    *)
(* nothing, one that is the same is not written.                               *)
SyncConfig ==
  /\ GetConfig # CannotBuild /\ GetConfig # file
  /\ file' = GetConfig
  /\ UNCHANGED <<generated, overrides, format, changes>>

EditGenerated ==
  /\ changes < MaxChanges
  /\ generated' \in Generated
  /\ changes' = changes + 1
  /\ UNCHANGED <<overrides, format, file>>

EditOverrides(level, doc) ==
  /\ changes < MaxChanges
  /\ level \in YamlLevels => IsPlain(doc)
  /\ overrides' = [l \in DOMAIN overrides \union {level} |-> IF l = level THEN doc ELSE overrides[l]]
  /\ changes' = changes + 1
  /\ UNCHANGED <<generated, format, file>>

(* Without the ConfigMap there are no overrides.                               *)
DeleteOverrides ==
  /\ changes < MaxChanges /\ DOMAIN overrides # {}
  /\ overrides' = [l \in {} |-> Leaf(0)]
  /\ changes' = changes + 1
  /\ UNCHANGED <<generated, format, file>>

ConfigInit ==
  /\ generated \in Generated
  /\ overrides = [l \in {} |-> Leaf(0)]
  /\ format \in {"yson", "json"}
  /\ file = NoFile
  /\ changes = 0

ConfigNext ==
  \/ SyncConfig
  \/ EditGenerated
  \/ \E level \in Range(YsonLevels), doc \in OverrideDocs : EditOverrides(level, doc)
  \/ \E level \in Range(TextLevels) : EditOverrides(level, SomeText)
  \/ DeleteOverrides

ConfigSpec == ConfigInit /\ [][ConfigNext]_configVars

-----------------------------------------------------------------------------
(* Properties.                                                                *)

(* What a document says at a place.  A step into a map is a key, one into      *)
(* attributes is "@" and a key; the value itself is at the place itself.       *)
Value(doc) == IF doc.type = "attributed" THEN doc.value ELSE doc

RECURSIVE Says(_, _)
Says(doc, place) ==
  IF place = <<>> THEN Value(doc).type
  ELSE IF place[1] = "@"
  THEN IF doc.type = "attributed" /\ place[2] \in DOMAIN doc.attributes.values
       THEN Says(doc.attributes.values[place[2]], SubSeq(place, 3, Len(place))) ELSE "nothing"
  ELSE IF Value(doc).type = "map"
       THEN IF place[1] \in DOMAIN Value(doc).values
            THEN Says(Value(doc).values[place[1]], Tail(place)) ELSE "nothing"
       ELSE "cut"

RECURSIVE ValueAt(_, _)
ValueAt(doc, place) ==
  IF place = <<>> THEN Value(doc).value
  ELSE IF place[1] = "@" THEN ValueAt(doc.attributes.values[place[2]], SubSeq(place, 3, Len(place)))
  ELSE ValueAt(Value(doc).values[place[1]], Tail(place))

RECURSIVE PlacesOf(_)
PlacesOf(doc) ==
  LET inside == IF Value(doc).type = "map"
                THEN UNION {{<<k>> \o p : p \in PlacesOf(Value(doc).values[k])} : k \in DOMAIN Value(doc).values}
                ELSE {}
      attributes == IF doc.type = "attributed"
                    THEN UNION {{<<"@", k>> \o p : p \in PlacesOf(doc.attributes.values[k])} :
                                k \in DOMAIN doc.attributes.values}
                    ELSE {}
  IN  {<<>>} \union inside \union attributes

(* The documents in force, the most general first.                             *)
InForce ==
  LET levels == SelectSeq(YsonLevels, LAMBDA l : l \in DOMAIN overrides)
  IN  <<generated>> \o [i \in DOMAIN levels |-> overrides[levels[i]]]

(* The most specific level that says something about a place decides what is   *)
(* there, for every place of every document: its literal, or, when it replaces *)
(* what the place is part of, nothing; and the more specific header or footer  *)
(* is the outer one (getConfig, overrideYsonConfigs, decodeInto).              *)
MostSpecificWins ==
  LET built == GetConfig.body
      docs == InForce
      InForceOf(levels) == SelectSeq(levels, LAMBDA l : l \in DOMAIN overrides)
  IN  GetConfig # CannotBuild =>
      /\ GetConfig.head = InForceOf(<<"name--HEADER-", "HEADER-">>)
      /\ GetConfig.foot = InForceOf(<<"FOOTER-", "name--FOOTER-">>)
      /\ \A place \in UNION {PlacesOf(docs[i]) : i \in DOMAIN docs} :
          LET saying == {i \in DOMAIN docs : Says(docs[i], place) # "nothing"}
              last == CHOOSE i \in saying : \A j \in saying : j <= i
              said == Says(docs[last], place)
          IN  /\ said \in {"literal", "map"} => Says(built, place) = said
              /\ said = "literal" => ValueAt(built, place) = ValueAt(docs[last], place)
              /\ said = "cut" => Says(built, place) \in {"cut", "nothing"}

================================================================================
