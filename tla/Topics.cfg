CONSTANTS
  m1 = m1
  m2 = m2
  m3 = m3
  Memories = {m1, m2, m3}
  Intents = {"i1"}
  Near <- Near3
  Clash <- Clash3
  Embedded = {m1, m3}
  MaxModels = 2
  MaxOpen = 2
SYMMETRY Alike
SPECIFICATION Spec
INVARIANTS
  NoLiveDuplicates
  OneJobPerBlindTopic
  UnfinishedIffOpen
  EvidenceConserved
  VoicedStaysSuppressed
PROPERTY KeepsSubjects
