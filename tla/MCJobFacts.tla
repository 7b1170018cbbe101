----------------------------- MODULE MCJobFacts -----------------------------
(* JobFacts for TLC: the retry configurations and the taxonomy.            *)
EXTENDS JobFacts

MCConfigs == {[table |-> "new",  max |-> 2, when |-> {"system"}],
              [table |-> "old",  max |-> 1, when |-> {"always"}],
              [table |-> "none", max |-> 0, when |-> {}]}

(* Classes of both programs, in the order each of them ranks them; the     *)
(* first of the job processor's is one the script does not know.           *)
MCTaxonomy        == <<"missing", "build_error", "oom", "killed">>
MCDeconflictOrder == <<"missing", "oom", "build_error", "killed">>
MCProcessorOrder  == <<"dns_error", "missing", "build_error", "killed", "oom">>
=============================================================================
