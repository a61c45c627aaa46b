\* Three parties; four contexts, forked twice deep.
SPECIFICATION MCSpec
CONSTANTS
  N = 3
  Contexts <- MCContexts
  Root = "main"
  Script <- MCScript
INVARIANTS IInv PublAgree PrssPaired NoReuse
PROPERTIES Finishes
