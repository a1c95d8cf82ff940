CONSTANTS
  t1 = t1
  t2 = t2
  c1 = c1
  c2 = c2
  c3 = c3
  alice = alice
  bob = bob
  k1 = k1
  k2 = k2
  NoText = NoText
  Zero = Zero
  Junk = Junk
  NoCall = NoCall
  Accounts <- MCAccounts
  Keys <- MCKeys
  AccessKeys <- OneAccount
  Precise = 16
  Doubles <- Scaled
  Shorts <- OneDigit
  Calls = {c1}
  Discipline = "between"
  MayKill = TRUE
  Credentials <- BadCredentials
  WaitStatuses = {0, 2, 3}
  ViewKinds = {"view_account"}
  Threads = {t1}
  FirstNonce <- ZeroNonces
SPECIFICATION Spec
INVARIANTS
  TypeOK
  SignedByNamedKey
CHECK_DEADLOCK FALSE
