----------------------------- MODULE MCChatClient -----------------------------
(* ChatClient for TLC. *)
EXTENDS ChatClient, TLC

\* Codes over two visits with a fault; everything the customer can do within one visit;
\* three prompts, one of whose sessions may end, with Stop; and closing the chat, also
\* with a turn still running, and also while its tools write.
SafetyBudgets ==
  {[prompts |-> 2, visits |-> 2, faults |-> 1, does |-> {"code", "tools"}],
   [prompts |-> 2, visits |-> 1, faults |-> 0, does |-> {"code", "stop", "close", "tools"}],
   [prompts |-> 3, visits |-> 2, faults |-> 1, does |-> {"stop"}],
   [prompts |-> 3, visits |-> 2, faults |-> 1, does |-> {"close"}],
   [prompts |-> 2, visits |-> 2, faults |-> 0, does |-> {"close", "tools"}]}

\* Closing the chat, and codes, each with a fault.
SettleBudgets ==
  {[prompts |-> 2, visits |-> 1, faults |-> 1, does |-> {"close", "tools"}],
   [prompts |-> 2, visits |-> 1, faults |-> 1, does |-> {"code", "tools"}]}

Sym == Permutations(Sessions) \cup Permutations(Calls)
=============================================================================
