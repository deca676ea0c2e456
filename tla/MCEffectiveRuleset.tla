-------------------------- MODULE MCEffectiveRuleset --------------------------
(* Instances of EffectiveRuleset and FciAwardPolicy for TLC.               *)
EXTENDS FciAwardPolicy, TLC

CONSTANTS c1, c2, s1, s2, national, anyDog, cac, bob, bos, bis, g1, g2, rex, max, ava

Class(scale, awards)   == [kind |-> "class", entry |-> anyDog, scale |-> scale, awards |-> awards]
Scale(grades)          == [kind |-> "scale", grades |-> grades]
PerSex(minimum, worst) == [kind |-> "perSex", minimum |-> minimum, worst |-> worst]
Higher(level, minimum, fedBy) ==
    [kind |-> "higher", scope |-> level, discretionary |-> FALSE, minimum |-> minimum, fedBy |-> fedBy]
ByAward(award) == [kind |-> "award", id |-> award]
ByClass(class) == [kind |-> "class", id |-> class]

\* A complete ruleset but for bob, bos and bis: two classes with a scale each,
\* the worse grade on both, an award in the first class.
Base == c1 :> Class(s1, {cac}) @@ c2 :> Class(s2, {}) @@ s1 :> Scale(g1 :> 0 @@ g2 :> 1)
        @@ s2 :> Scale(g2 :> 0) @@ cac :> PerSex(g1, 1)
        @@ national :> [kind |-> "showType", awards |-> {cac, bob, bos}]

\* The FCI tower, bob and bis that feed each other, and a diamond with bos.
Tower   == bob :> Higher("breed", g1, <<ByAward(cac), ByClass(c2)>>)
           @@ bos :> Higher("breed", g1, <<ByAward(cac), ByClass(c2)>>)
           @@ bis :> Higher("show", g2, <<ByAward(bob)>>)
Cycle   == bob :> Higher("breed", g2, <<ByAward(bis), ByClass(c2)>>)
           @@ bis :> Higher("show", g2, <<ByAward(cac), ByAward(bob)>>)
Diamond == bob :> Higher("breed", g2, <<ByAward(cac)>>)
           @@ bos :> Higher("group", g1, <<ByAward(bob), ByClass(c2)>>)
           @@ bis :> Higher("show", g1, <<ByAward(bos), ByAward(bob)>>)

MCLayers   == <<"fci", "kmsh">>
MCScales   == <<s1, s2>>
MCSexes    == rex :> "male" @@ max :> "male" @@ ava :> "female"
MCSymmetry == Permutations({rex, max})
MCContents ==
    { Tower @@ Base, Cycle @@ Base, Diamond @@ Base, Cycle,
      c1 :> Class(s2, {bob, bos}),
      s1 :> Scale(g2 :> 0) @@ national :> [kind |-> "showType", awards |-> {bis}],
      cac :> PerSex(g2, 2) @@ c2 :> Class(s1, {cac}),
      bos :> [kind |-> "collective"] @@ bob :> PerSex(g2, 0) }
MCDiamond == {Diamond @@ Base}
=============================================================================
