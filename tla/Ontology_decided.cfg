\* The same instance, for the decision of a reviewer.
SPECIFICATION OntologySpec
CONSTANTS
  None = None
  assembly = assembly
  research = research
  own = own
  chips = chips
  Writers <- McWriters
  Names <- McNames
  Companies <- McCompanies
  Own <- McOwn
  Resolution <- McResolution
  Issuers = {"i1", "i2"}
  Terms <- McTerms
  Industries <- McIndustries
  AlsoOf <- Chain
  Readers = {first, second}
  MaxMentions = 3
PROPERTY DecisionStands
