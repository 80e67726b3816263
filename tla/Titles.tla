------------------------------- MODULE Titles -------------------------------
(***************************************************************************)
(* What a player is called (internal/skill/catalog.go, and the end of      *)
(* practice and applyGain in internal/engine).  The catalog's rules are    *)
(* read in file order and the first that the ranks meet gives the title;   *)
(* a success that changes the title is announced to the player.            *)
(*                                                                         *)
(* The loader sees one of Tables and takes it or stops the boot.  Then the *)
(* player practises, leaves and comes back with the sheet that was saved.  *)
(***************************************************************************)
EXTENDS SkillSheet, Sequences

CONSTANTS Rules,     \* [id, need, title, announce]: need maps skills to ranks
          Tables,    \* rule lists a catalog may hold
          Texts,
          NoText     \* the empty text

ASSUME TitlesAssumption ==
  /\ NoText \notin Texts
  /\ Tables \subseteq Seq(Rules)
  /\ \A r \in Rules : {r.title, r.announce} \subseteq Texts \cup {NoText}

VARIABLES table, phase,
          ranks, stats,  \* of the player, or of the saved sheet while away
          asWhom,        \* title at the last entry
          heard          \* rules whose announcement was heard since

vars == <<table, phase, ranks, stats, asWhom, heard>>

TypeOK ==
  /\ table \in Tables
  /\ phase \in {"boot", "refused", "away", "in"}
  /\ ranks \in Ranks /\ stats \in [Stats -> Nat]
  /\ asWhom \in Texts \cup {NoText}
  /\ heard \in Seq(1..Len(table))

Init ==
  /\ table \in Tables /\ phase = "boot"
  /\ ranks = [s \in Skills |-> 0] /\ stats = [s \in Stats |-> 0]
  /\ asWhom = NoText /\ heard = <<>>

-----------------------------------------------------------------------------
RuleLoads(r) ==
  /\ r.title # NoText
  /\ DOMAIN r.need \subseteq Skills
  /\ \A s \in DOMAIN r.need : r.need[s] \in 0..RankCap

\* Slip: a list may end with any rule.
LoadsOpenEnded(t) ==
  /\ \A k \in DOMAIN t : RuleLoads(t[k]) /\ (DOMAIN t[k].need = {} => k = Len(t))
  /\ \A j, k \in DOMAIN t : t[j].id = t[k].id => j = k

\* toTitle, newCatalog: the rule that asks for nothing is the last, and only that.
Loads(t) ==
  /\ \A k \in DOMAIN t : RuleLoads(t[k]) /\ (DOMAIN t[k].need = {} <=> k = Len(t))
  /\ \A j, k \in DOMAIN t : t[j].id = t[k].id => j = k

Matches(r, rs) == \A s \in DOMAIN r.need : rs[s] >= r.need[s]

\* The rule that names a player of these ranks: one, or none.
Naming(rs) ==
  {k \in DOMAIN table : Matches(table[k], rs) /\ \A j \in 1..(k - 1) : ~Matches(table[j], rs)}

Title(rs) ==
  IF Naming(rs) = {} THEN NoText ELSE table[CHOOSE k \in Naming(rs) : TRUE].title

\* Slip: every success is announced anew.
AnnouncedAlways(old, new) ==
  {k \in Naming(new) : old # new /\ table[k].announce # NoText}

\* Slip: the announcement is looked up with the sheet from before.
AnnouncedLate(old, new) ==
  {k \in Naming(old) : /\ old # new /\ Title(new) \notin {NoText, Title(old)}
                       /\ table[k].announce # NoText}

\* The rule announced when ranks go from old to new: one, or none.
Announced(old, new) ==
  {k \in Naming(new) : /\ old # new /\ Title(new) \notin {NoText, Title(old)}
                       /\ table[k].announce # NoText}

Boot ==
  /\ phase = "boot"
  /\ phase' = IF Loads(table) THEN "away" ELSE "refused"
  /\ UNCHANGED <<table, ranks, stats, asWhom, heard>>

\* The loop's enter, with the sheet that was loaded.
Enter ==
  /\ phase = "away" /\ phase' = "in"
  /\ asWhom' = Title(ranks) /\ heard' = <<>>
  /\ UNCHANGED <<table, ranks, stats>>

\* practice, or applyGain after a craft, a gathering or a trade.
Practice(sk) ==
  /\ phase = "in"
  /\ \E t \in TryGain(ranks, stats, sk) :
       /\ ranks' = t[1] /\ stats' = t[2]
       /\ IF Announced(ranks, t[1]) = {} THEN UNCHANGED heard
          ELSE \E k \in Announced(ranks, t[1]) : heard' = Append(heard, k)
  /\ UNCHANGED <<table, phase, asWhom>>

Leave ==
  /\ phase = "in" /\ phase' = "away"
  /\ UNCHANGED <<table, ranks, stats, asWhom, heard>>

\* A boot on a catalog that does not load is over.
Refused == phase = "refused" /\ UNCHANGED vars

Next == Boot \/ Enter \/ Leave \/ Refused \/ \E sk \in Skills : Practice(sk)

Spec == Init /\ [][Next]_vars
-----------------------------------------------------------------------------
(* Properties. *)

\* Announcements climb the list: none is heard twice in a sitting, and none of a
\* rule behind one heard before, as ranks are never lost.  (practice.go:36,
\* livelihood.go:437)
HeardOnce ==
  \A i, j \in DOMAIN heard : i < j => heard[j] < heard[i]

\* Whoever plays has a title when the catalog has any; and, unless a rule that is
\* not the last has no announcement, it is the one announced last, or the one
\* from the entry.  (Title, Announce, "A title change is announced", D-040)
KnownAs ==
  phase = "in" /\ table # <<>> =>
    /\ Title(ranks) # NoText
    /\ (\A k \in 1..(Len(table) - 1) : table[k].announce # NoText) =>
         Title(ranks) = IF heard = <<>> THEN asWhom ELSE table[heard[Len(heard)]].title
=============================================================================
