-------------------------- MODULE MCPrepareConfig ---------------------------
(* Every configuration file over four pools whose entries are drawn from   *)
(* small sets, on a machine with three two-threaded cores.                 *)
EXTENDS PrepareConfig

MCCPU       == 0 .. 5
MCCpuId     == 0 .. 6
MCThreadSet == [k \in MCCPU |-> {j \in MCCPU : j % 3 = k % 3}]

Entry(cset, count, isolcpus, disableHT) ==
  [Cpus |-> cset, CpuCount |-> count, Isolated |-> isolcpus, DisableHT |-> disableHT]

Plain(cset) == Entry(cset, 0, FALSE, FALSE)

(* Absent stands for an entry the file does not have. *)
Absent == "absent"

ReservedEntries == {Plain({0}), Plain({0, 3, 4}), Plain({1}), Plain(Wildcard),
                    Entry(Nil, 0, FALSE, FALSE), Entry(Nil, 3, FALSE, FALSE),
                    Entry(Nil, 7, FALSE, FALSE)}
DefaultEntries  == {Plain(Wildcard), Plain({3}), Plain({1, 4})}
EntriesA        == {Plain({4}), Plain(Wildcard), Plain({6}),
                    Entry({1}, 0, FALSE, TRUE), Entry({2}, 0, FALSE, TRUE),
                    Entry({1, 4}, 0, FALSE, TRUE), Plain(Nil), Plain(Malformed)}
EntriesB        == {Plain({1, 2}), Entry({5}, 0, TRUE, FALSE), Entry({5}, 0, TRUE, TRUE),
                    Entry(Wildcard, 0, TRUE, FALSE), Entry(Wildcard, 0, TRUE, TRUE)}

Options == [r: ReservedEntries \cup {[Cpus |-> Absent]}, d: DefaultEntries \cup {[Cpus |-> Absent]},
            a: EntriesA \cup {[Cpus |-> Absent]}, b: EntriesB \cup {[Cpus |-> Absent]}]

File(o) ==
  LET all == [pool \in {ReservedPool, DefaultPool, "A", "B"} |->
                CASE pool = ReservedPool -> o.r [] pool = DefaultPool -> o.d
                  [] pool = "A" -> o.a [] OTHER -> o.b]
  IN RestrictValues(all, LAMBDA e : "CpuCount" \in DOMAIN e)

MCNodeConfigs ==
  {DefaultNodeConfig(n) : n \in 1 .. 2}
    \cup {ParseNodeConfig(f, 1) : f \in {g \in {File(o) : o \in Options} : ~ParseError(g)}}

=============================================================================
