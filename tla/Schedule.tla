-------------------------------- MODULE Schedule --------------------------------
(***************************************************************************)
(* When the scanners of the core run (SecurityEngine::RunCycle).           *)
(***************************************************************************)
EXTENDS Naturals

\* The scanners of RunCycle: each runs in the cycles that leave the second
\* number when divided by the first.
Schedule ==
    [ target |-> <<1, 0>>, baseline |-> <<1, 0>>, lifetime |-> <<1, 0>>,
      modules |-> <<1, 0>>, overlays |-> <<1, 0>>, debugger |-> <<1, 0>>,
      threads |-> <<1, 0>>, hooks |-> <<3, 2>>, inline_hooks |-> <<4, 1>>,
      manual_maps |-> <<4, 2>>, handles |-> <<3, 1>>, regions |-> <<2, 0>>,
      watched |-> <<2, 1>>, devices |-> <<10, 3>>, image |-> <<4, 3>>,
      artifacts |-> <<3, 0>>, services |-> <<12, 5>>, timing |-> <<5, 0>>,
      privileges |-> <<6, 2>>, eat_hooks |-> <<5, 3>>, pipes |-> <<4, 0>>,
      syscall_stubs |-> <<5, 4>>, hollowing |-> <<6, 1>>,
      mitigations |-> <<8, 3>>, stealth |-> <<5, 2>>,
      writable_image |-> <<4, 3>>, persistence |-> <<15, 7>>,
      ports |-> <<7, 3>>, etw |-> <<6, 4>>, exception |-> <<5, 1>>,
      hosts |-> <<20, 9>>, token |-> <<8, 2>>, connections |-> <<7, 5>> ]

Due(s, n) == n % Schedule[s][1] = Schedule[s][2]
=============================================================================
