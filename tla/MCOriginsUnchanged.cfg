SPECIFICATION AllSpec
CONSTANTS
 Sides = {"items"}
 Providers = {"linear", "granola"}
 Docs = {1, 2, 3}
 PageSize = 1
 MaxVersion = 5
 MaxStreams = 2
 Granularity = 2
 Connectors = {"github", "linear", "granola"}
 Policies = {"full-retention", "reference-only"}
 Items = {w}
 People = {p}
 Texts = {"t"}
 Marked <- MCMarked
 MaxEdits = 3
 None = None
 Seeders = {s1, s2}
 Meetings = {"m1", "m2"}
 Notes = {"n1"}
 Issues = {"i1"}
 Pulls = {"p1"}
 Payloads = {"y1"}
 MarkerOf <- MCMarkerOf
 Nothing = Nothing
 Findings = {"crash", "authz", "typo"}
 PassOf <- MCPassOf
 Line <- MCLine
 Rank <- MCRank
 BlockingRank = 0
 Window = 3
 MaxRuns = 2
INVARIANTS
 ItemsCurrent
CHECK_DEADLOCK FALSE
