---------------------------- MODULE MCMSRCDefault ----------------------------
(***************************************************************************)
(* An instance of the controller with the default catalogue: a grid over   *)
(* the scores an episode can show.                                         *)
(***************************************************************************)
EXTENDS MSRCDefault

Deltas == {-20, 5, 60, 150}

\* nvidia-smi missing, an idle card, a half full one, one close to its edge.
VRAM == {[opp |-> 0, press |-> 1000, frag |-> 1000],
         [opp |-> 940, press |-> 50, frag |-> 120],
         [opp |-> 600, press |-> 500, frag |-> 300],
         [opp |-> 100, press |-> 900, frag |-> 900]}

InputOf(h, e, p, l, v, o, c, b, m) ==
  [het |-> h, epi |-> e, prox |-> p, low |-> l, verdict |-> v, op |-> o,
   complexity |-> c, usage |-> b, opp |-> m.opp, press |-> m.press,
   frag |-> m.frag]

Grid == {InputOf(h, e, p, l, v, o, c, b, m) :
           h \in {0, 240, 500, 1000}, e \in {0, 190, 350, 900},
           p \in {0, 600, 1000}, l \in {0, 400, 1000}, v \in {0, 500},
           o \in {0, 800}, c \in {0, 600}, b \in {0, 500}, m \in VRAM}
=============================================================================
