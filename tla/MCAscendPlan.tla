---------------------------- MODULE MCAscendPlan ----------------------------
(* Instances of AscendPlan for TLC: canonical caches with a partly used page, *)
(* an attention and a recurrent group that share an allocation, and           *)
(* configurations that build_layout refuses.                                  *)
EXTENDS AscendPlan

MCSlotOf == [x \in (1 .. 2) \X (0 .. LastLogical \div Factor) |-> (2 * x[1] + 3 * x[2]) % NumCpuBlocks]

Canonical ==
    [pages |-> <<2, 1>>,
     refs |-> << <<[layer |-> 1, size |-> 1]>>, <<[layer |-> 2, size |-> 1]>> >>]

Hybrid ==
    [allocs |-> <<[size |-> 3 * NumBlocks, stride |-> 0, shared |-> {"attn", "mamba"}],
                  [size |-> 1 * NumBlocks, stride |-> 0, shared |-> {"attn2"}]>>,
     groups |-> << <<"attn", "attn2">>, <<"mamba">> >>,
     caches |-> [attn |-> <<1, 1>>, attn2 |-> <<1>>, mamba |-> <<1, 2>>],
     limit |-> [attn |-> 3, attn2 |-> 3, mamba |-> 3]]

Uneven == [Hybrid EXCEPT !.allocs[2].size = @ + 1]
Strided == [Hybrid EXCEPT !.allocs[2].stride = 4]
TwoHomes == [Hybrid EXCEPT !.allocs[2].shared = @ \cup {"attn"}]
Crowded == [Hybrid EXCEPT !.allocs[1].shared = @ \cup {"attn2"}, !.allocs[2].shared = {}]
Homeless == [Hybrid EXCEPT !.allocs[2].shared = {}]
TooWide == [Hybrid EXCEPT !.caches.mamba = <<2, 2>>]

MCConfigs == {Canonical, Hybrid, Uneven, Strided, TwoHomes, Crowded, Homeless, TooWide}
=============================================================================
