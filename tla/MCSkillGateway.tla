--------------------------- MODULE MCSkillGateway ---------------------------
(* An instance of SkillGateway for TLC. *)
EXTENDS SkillGateway, TLC

CONSTANTS s1, s2, p1, p2, c1, c2

\* Two providers that both claim s2, one of which may panic.
TwoSkills    == {s1, s2}
TwoProviders == {p1, p2}
TwoSkillIDs  == (p1 :> {s1, s2} @@ p2 :> {s2})
SecondPanics == {s2}

TwoCalls     == {c1, c2}

\* -1 leaves no attempt at all, 3 is above the cap of the instances.
Retries      == {-1, 3}
=============================================================================
