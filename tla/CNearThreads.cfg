CONSTANTS
  t1 = t1
  t2 = t2
  c1 = c1
  c2 = c2
  c3 = c3
  alice = alice
  bob = bob
  k1 = k1
  k2 = k2
  NoText = NoText
  Zero = Zero
  Junk = Junk
  NoCall = NoCall
  Accounts <- MCAccounts
  Keys <- MCKeys
  AccessKeys <- OneAccount
  Precise = 16
  Doubles <- Scaled
  Shorts <- OneDigit
  Threads = {t1, t2}
  FirstNonce <- ZeroNonces
  Calls = {c1, c2}
  Discipline = "once"
  MayKill = TRUE
  Credentials <- OneCredential
  WaitStatuses = {5}
  ViewKinds = {"call_function"}
SPECIFICATION Spec
INVARIANTS
  ZeroCodeMeansNotSent
  ReadsFinalWrites
PROPERTY ImplementsTxCall
SYMMETRY AllSymmetry
