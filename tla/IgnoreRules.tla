----------------------------- MODULE IgnoreRules -----------------------------
(***************************************************************************)
(* Ignore rules and the decisions made of them: rule files are read into   *)
(* layers, one chain of layers per kind of source, and a path is decided   *)
(* by the last matching rule of the first layer that has one, behind the   *)
(* overrides and before the hidden-file filter.                            *)
(*                                                                         *)
(* A path is the sequence of its names below the match root.  A pattern is *)
(* the set of the names, or of the paths below its base, that it matches:  *)
(* the glob matcher and its index by first and last byte are not modelled. *)
(***************************************************************************)
EXTENDS Integers, Sequences, FiniteSets, SequencesExt, FiniteSetsExt

CONSTANTS
    IgnoreFiles,   \* the configured names of rule files, in order
    RuleFiles,     \* the lines of every rule file there is, by its path
    StaticRules,   \* layers of Git's global and exclude files, of explicit files
    SkipHidden,    \* skip_hidden
    HiddenNames,   \* the names with a dot in front
    ScanRoot,      \* the directory scanned, below the match root
    None

Ranks == 0 .. 5    \* SourceRank: GitGlobal .. Explicit
GitIgnore == 2
DotIgnore == 3
Custom    == 4

Configured == ToSet(IgnoreFiles)

\* A list of rules, in the order of their lines; layers, the first to ask first.
IsRules(rules) ==
    /\ rules \in Seq(ToSet(rules))
    /\ \A rule \in ToSet(rules) : rule.action \in {"Ignore", "Include"}

IsLayers(layers) ==
    /\ layers \in Seq(ToSet(layers))
    /\ \A layer \in ToSet(layers) : layer.base \in Seq(STRING) /\ IsRules(layer.rules)

ASSUME RuleConstants ==
    /\ IgnoreFiles \in Seq(STRING)
    /\ \A file \in DOMAIN RuleFiles : RuleFiles[file] \in Seq(ToSet(RuleFiles[file]))
    /\ DOMAIN StaticRules = Ranks
    /\ \A rank \in Ranks : IsLayers(StaticRules[rank])
    /\ SkipHidden \in BOOLEAN
    /\ None \notin {"Ignore", "Include", "Hidden", "OverrideIgnore", "OverrideInclude",
                    "Ignored", "Override"}

Name(path)      == path[Len(path)]
Parent(path)    == SubSeq(path, 1, Len(path) - 1)
Ancestors(path)  == {SubSeq(path, 1, n) : n \in 1 .. Len(path) - 1}
Below(path, base) == SubSeq(path, Len(base) + 1, Len(path))
IsHidden(path)  == Name(path) \in HiddenNames

-----------------------------------------------------------------------------
(* One file's rules. *)

\* parse_rule: a line, once blank lines and comments are left out and a line
\* that is no pattern has been reported.
ParseRule(line) ==
    [pattern |-> line.pattern,
     action  |-> IF line.negated THEN "Include" ELSE "Ignore",
     target  |-> IF line.trailingSlash THEN "Directory" ELSE "Any",
     scope   |-> IF line.leadingSlash THEN "Anchored"
                 ELSE IF line.innerSlash THEN "Path" ELSE "Anywhere"]

ParseFile(lines) == [k \in DOMAIN lines |-> ParseRule(lines[k])]

RulesOfFile[file \in DOMAIN RuleFiles] == ParseFile(RuleFiles[file])

RuleMatches(rule, path, isDirectory) ==
    /\ rule.target = "Directory" => isDirectory
    /\ IF rule.scope = "Anywhere"
       THEN Name(path) \in rule.pattern
       ELSE path \in rule.pattern

\* RuleSet::matches_exact: the action of the last rule that matches.
ActionAt(rules) == [k \in 0 .. Len(rules) |-> IF k = 0 THEN None ELSE rules[k].action]

MatchesExact(rules, path, isDirectory) ==
    ActionAt(rules)[SelectLastInSeq(rules, LAMBDA r : RuleMatches(r, path, isDirectory))]

\* RuleSet::matches: the path itself, else its nearest ancestor with a rule.
Matches(rules, path, isDirectory) ==
    LET own     == MatchesExact(rules, path, isDirectory)
        decided == {a \in Ancestors(path) : MatchesExact(rules, a, TRUE) # None}
        nearest == CHOOSE a \in decided : \A b \in decided : Len(b) <= Len(a)
    IN  IF own # None
        THEN [exact |-> TRUE, action |-> own]
        ELSE [exact |-> FALSE,
              action |-> IF decided = {} THEN None ELSE MatchesExact(rules, nearest, TRUE)]

-----------------------------------------------------------------------------
(* Layers: per rank, the layers from the deepest directory outwards. *)

BaseRules == StaticRules

RankOf(name) ==
    CASE name = ".gitignore" -> GitIgnore
      [] name = ".ignore"    -> DotIgnore
      [] OTHER               -> Custom

\* The rules a directory's own files of these names have for one rank.
OwnRules(directory, names, rank) ==
    LET Adds(name) ==
            IF name \in names /\ RankOf(name) = rank /\ Append(directory, name) \in DOMAIN RuleFiles
            THEN RulesOfFile[Append(directory, name)]
            ELSE <<>>
    IN  FlattenSeq([k \in DOMAIN IgnoreFiles |-> Adds(IgnoreFiles[k])])

\* build_child_rules: what a directory adds to what it inherits.
ChildRules_OuterFirst(directory, names, inherited) ==
    [rank \in Ranks |->
        LET own == OwnRules(directory, names, rank)
        IN  IF own = <<>>
            THEN inherited[rank]
            ELSE inherited[rank] \o <<[base |-> directory, rules |-> own]>>]

ChildRules(directory, names, inherited) ==
    [rank \in Ranks |->
        LET own == OwnRules(directory, names, rank)
        IN  IF own = <<>>
            THEN inherited[rank]
            ELSE <<[base |-> directory, rules |-> own]>> \o inherited[rank]]

\* handle_errors: a rule file that is no good is an error or a warning.
BrokenIn(directory, names, broken) ==
    \E name \in names : Append(directory, name) \in broken

InOrder(rules) ==
    rules[5] \o rules[4] \o rules[3] \o rules[2] \o rules[1] \o rules[0]

Candidate(path, base) == Len(path) > Len(base) /\ IsPrefix(base, path)

\* match_prepared_rules: the first layer that has a rule for the path, whose
\* ancestors have been decided.
LayerAction(layer, path, isDirectory) ==
    IF Candidate(path, layer.base)
    THEN MatchesExact(layer.rules, Below(path, layer.base), isDirectory)
    ELSE None

MatchPreparedRules(path, isDirectory, rules) ==
    LET layers == InOrder(rules)
        first  == SelectInSeq(layers, LAMBDA l : LayerAction(l, path, isDirectory) # None)
        At     == [k \in 0 .. Len(layers) |->
                     IF k = 0 THEN None ELSE LayerAction(layers[k], path, isDirectory)]
    IN  At[first]

\* match_rules: for a path on its own; an ancestor that a layer includes
\* outweighs one that a later layer ignores.
MatchRules_IgnoreWins(path, isDirectory, rules) ==
    LET layers == InOrder(rules)
        Hit(k) == Matches(layers[k].rules, Below(path, layers[k].base), isDirectory)
        hits   == {k \in DOMAIN layers : Candidate(path, layers[k].base) /\ Hit(k).action # None}
        decisive == {k \in hits : Hit(k).exact \/ Hit(k).action = "Ignore"}
    IN  IF decisive # {}
        THEN Hit(Min(decisive)).action
        ELSE IF hits # {} THEN "Include" ELSE None

MatchRules(path, isDirectory, rules) ==
    LET layers == InOrder(rules)
        Hit(k) == Matches(layers[k].rules, Below(path, layers[k].base), isDirectory)
        hits   == {k \in DOMAIN layers : Candidate(path, layers[k].base) /\ Hit(k).action # None}
        IncludedBefore(k) ==
            \E j \in hits : j < k /\ ~Hit(j).exact /\ Hit(j).action = "Include"
        decisive ==
            {k \in hits : Hit(k).exact \/ (Hit(k).action = "Ignore" /\ ~IncludedBefore(k))}
    IN  IF decisive # {}
        THEN Hit(Min(decisive)).action
        ELSE IF hits # {} THEN "Include" ELSE None

-----------------------------------------------------------------------------
(* The decision on a path. *)

\* OverrideRules: an override reads the other way round, and the first include
\* among them leaves out every file that no override matches.
HasIncludes(overrides) == \E k \in DOMAIN overrides : overrides[k].action = "Ignore"

OverrideMatch(overrides, relative, isDirectory) ==
    LET unmatched == IF HasIncludes(overrides) /\ ~isDirectory THEN "OverrideIgnore" ELSE None
    IN  [action \in {"Ignore", "Include", None} |->
            CASE action = "Ignore"  -> "OverrideInclude"
              [] action = "Include" -> "OverrideIgnore"
              [] action = None      -> unmatched]
        [MatchesExact(overrides, relative, isDirectory)]

\* matched_with_rules: behind the overrides the rules, behind the rules the
\* hidden-file filter.
Unmatched(path) == IF SkipHidden /\ IsHidden(path) THEN "Hidden" ELSE None

MatchedWithRules(overrides, path, isDirectory, rules, ancestorsPrepared) ==
    LET byRules == IF ancestorsPrepared
                   THEN MatchPreparedRules(path, isDirectory, rules)
                   ELSE MatchRules(path, isDirectory, rules)
        Behind  == [match \in {"Ignore", "Include", None} |->
                       IF match = None THEN Unmatched(path) ELSE match]
    IN  [override \in {"OverrideIgnore", "OverrideInclude", None} |->
            IF override = None THEN Behind[byRules] ELSE override]
        [OverrideMatch(overrides, Below(path, ScanRoot), isDirectory)]

\* skip_kind_for_match
SkipKind ==
    [match \in {"Ignore", "OverrideIgnore", "Hidden", "Include", "OverrideInclude", None} |->
        CASE match = "Ignore"         -> "Ignored"
          [] match = "OverrideIgnore" -> "Override"
          [] match = "Hidden"         -> "Hidden"
          [] OTHER                    -> None]
=============================================================================
