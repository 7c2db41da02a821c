----------------------------- MODULE ZoneCache ------------------------------
(***************************************************************************)
(* The cache of zone states, internal/amp/cache.go.  Every operation holds *)
(* its mutex and is one step; who calls them, and when, is ZoneService.    *)
(*                                                                         *)
(* A cell is one attribute of one zone.  Beside its value the model keeps  *)
(* who gave it: a set, or somebody at a keypad.  The code does not know.   *)
(***************************************************************************)
EXTENDS Naturals, Sequences

CONSTANTS
    Zones,      \* zone ids, pairs <<amplifier, zone>>
    Attrs,      \* attributes, by their two-letter codes
    Values,     \* values the amplifier accepts
    Refused     \* values it answers with "Command Error."

ASSUME AttrsAssumption == "ls" \notin Attrs \/ Attrs \ {"ls"} # {}

VARIABLES
    zones,          \* the cached zones
    recentSets      \* attributes set lately, and whether it is 10 s ago

cacheVars == <<zones, recentSets>>

Cells == Zones \X Attrs
Cell == [value : Values \cup Refused, by : {"keypad", "set"}]
Zone == [Attrs -> Cell]

CacheTypeOK ==
    /\ DOMAIN zones \subseteq Zones
    /\ \A z \in DOMAIN zones : zones[z] \in Zone
    /\ recentSets \in [Cells -> {"no", "guarded", "expired"}]

CacheInit ==
    /\ zones = <<>>
    /\ recentSets = [x \in Cells |-> "no"]

Cached(z) == z \in DOMAIN zones

(* model/zone.go                                                           *)
GetAttribute(zone, a) == zone[a].value
SetAttribute(zone, a, v) == [zone EXCEPT ![a] = [value |-> v, by |-> "set"]]

(* Lines that were read, in order: each is a zone and its attributes.      *)
Shown(s) == {s[i].zone : i \in DOMAIN s}
Newest(s, z) == CHOOSE i \in DOMAIN s : s[i].zone = z /\ \A j \in DOMAIN s : s[j].zone = z => j <= i

(* The cached zones, each line in turn having replaced its zone's entry.   *)
Merged(s) ==
    [z \in DOMAIN zones \cup Shown(s) |-> IF z \in Shown(s) THEN s[Newest(s, z)].attrs ELSE zones[z]]

(* diffZone: "ls" is not compared.                                         *)
Differs(old, new, a) == a # "ls" /\ GetAttribute(old, a) # GetAttribute(new, a)

Cleaned == [x \in Cells |-> IF recentSets[x] = "expired" THEN "no" ELSE recentSets[x]]

(* The changes Update returns, by line and attribute: a line is compared   *)
(* with what is cached by then, and attributes with a guard are left out.  *)
Changes(s) ==
    {x \in (DOMAIN s) \X Attrs :
        LET z == s[x[1]].zone
            old == Merged(SubSeq(s, 1, x[1] - 1))
        IN /\ z \in DOMAIN old
           /\ Differs(old[z], s[x[1]].attrs, x[2])
           /\ Cleaned[<<z, x[2]>>] = "no"}


(* Update: the zones that were read replace the cached ones, others stay.  *)
Update(s) == recentSets' = Cleaned /\ zones' = Merged(s)

(* Mutant of OptimisticSet: the guard comes with the value.                *)
SetCachedOnly(z, a, v) ==
    /\ zones' = IF Cached(z) THEN [zones EXCEPT ![z] = SetAttribute(@, a, v)] ELSE zones
    /\ recentSets' = IF Cached(z) /\ GetAttribute(zones[z], a) # v
                     THEN [recentSets EXCEPT ![<<z, a>>] = "guarded"] ELSE recentSets

(* OptimisticSet: of a zone that is not cached only the guard is set.      *)
OptimisticSet(z, a, v) ==
    /\ zones' = IF Cached(z) THEN [zones EXCEPT ![z] = SetAttribute(@, a, v)] ELSE zones
    /\ recentSets' = [recentSets EXCEPT ![<<z, a>>] = "guarded"]

(* recentSetGuardDuration goes by.                                         *)
GuardExpires(x) ==
    /\ recentSets[x] = "guarded"
    /\ recentSets' = [recentSets EXCEPT ![x] = "expired"]
    /\ UNCHANGED zones

=============================================================================
