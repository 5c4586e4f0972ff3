------------------------------ MODULE MCMargHook ------------------------------
(* Instances of MargExport for TLC. *)
EXTENDS MargExport, FiniteSetsExt

CONSTANTS w1

\* First the catalogue, or transactions alone; then batches without polling.
Operator ==
  <<{[poll |-> TRUE, select |-> {"products", "batches"}],
     [poll |-> TRUE, select |-> {"transactions"}]},
    {[poll |-> FALSE, select |-> {"batches"}]}>>
OperatorJobs ==
  {<<1, "products">>, <<1, "batches">>, <<1, "transactions">>, <<2, "batches">>}
NoRows == [j \in Jobs |-> 0]
AllFaults == FaultKinds
\* Bound: deliveries, as many as one job has attempts and repetitions.
FewDeliveries ==
  MapThenSumSet(LAMBDA j : attempts[j], Jobs) <= 1 + MaxRetries + MaxFaults

\* A day whose month and day can be confused, and a leap day.
Exported == {<<2024, 4, 3>>, <<2024, 2, 29>>}
Codes == {Word("A"), Empty, Plain("dashes"), Plain("NA")}
Figures == {Number(2678), Number(-1500), Empty, Plain("spaces"), Infinite}
Dated ==
  (UNION {Writings(d) : d \in Exported})
    \cup {DateText("/", <<29, 2, 2024>>), DateText("", <<2024, 4, 3>>), Plain("dashes"),
          Cell("moment", "", <<2024, 4, 3, 9>>)}
Moments == {<<2024, 5, 1, 8>>, <<2024, 5, 1, 9>>}
MainStore == Word("Main")

=============================================================================
