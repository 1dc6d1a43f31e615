SPECIFICATION Spec
CONSTANTS
  Keywords = {""}
  Severities = {}
  Domains = {}
  Statuses = {"draft"}
  NewIds = {"sol-100001"}
  TouchedSolutions = {"sol-004"}
  MaxLoads = 2
  MaxWrites = 2
  Digits = {"1234"}
  TouchedAgents <- MCAgents
  Typed = {"fta"}
  Used = {"ltm-001", "conv-001"}
  MaxCalls = 2
  Played = {"mega", "fta"}
  MaxRuns = 2
  Viewed = {"cg-checkout-service", "cg-payment-worker", "tg-checkout-critical-path", "tg-traffic-replay"}
  MaxDeletions = 2
  Corpora <- MCCorpora
  MaxExpanded = 1
  Openings <- MCOpenings
  Deletable <- MCDeletable
  MaxTreeSaves = 2
  Visits <- MCVisits
  Deleted <- MCDeleted
  Chosen = {1, 4, 5}
  MaxChoices = 2
  Hits <- MCHits
CHECK_DEADLOCK FALSE
INVARIANTS ListIsStored AgentsListed MemoriesForgotten DemoSettles GraphsCurrent DeletesWhatIsThere CorpusShown TreesAsStored GatesDrawnApart ShippedTreesKept PagesExplain RoutingDemoSteady
