CONSTANTS
  t1 = t1
  t2 = t2
  c1 = c1
  c2 = c2
  c3 = c3
  alice = alice
  bob = bob
  k1 = k1
  k2 = k2
  NoText = NoText
  Zero = Zero
  Junk = Junk
  NoCall = NoCall
  Accounts <- MCAccounts
  Keys <- MCKeys
  AccessKeys <- TwoAccounts
  Precise = 16
  Doubles <- Scaled
  Shorts <- OneDigit
  Threads = {t1, t2}
  FirstNonce <- ZeroNonces
  Calls = {c1}
  Discipline = "any"
  MayKill = FALSE
  Credentials <- TwoCredentials
  WaitStatuses = {0, 1, 2, 3, 4, 5}
  ViewKinds = {"view_access_key"}
SPECIFICATION Spec
INVARIANTS
  ResultMeansStatus
  
  SettingsBelongTogether
SYMMETRY ThreadSymmetry
CHECK_DEADLOCK FALSE
