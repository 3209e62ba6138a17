\* An assembly, a research, a review and a judging of one company; overviews of
\* two companies that name nine things, and two threads that call first.
SPECIFICATION OntologySpec
CONSTANTS
  None = None
  assembly = assembly
  research = research
  own = own
  chips = chips
  Writers <- McWriters
  Names <- McNames
  Companies <- McCompanies
  Own <- McOwn
  Resolution <- McResolution
  Issuers = {"i1", "i2"}
  Terms <- McTerms
  Industries <- McIndustries
  AlsoOf <- Chain
  Readers = {first, second}
  MaxMentions = 3
INVARIANTS IdIsOfStatus RunningIsShown NeighboursAreMutual
PROPERTY EveryRunEnds
