SPECIFICATION Spec
CONSTANTS
  Loans = {k1, k2}
  BuyIns = {b1}
  CorpActions = {c1}
  Seed = 3
  LoanSizes = {1, 2}
  Listings = {2}
  LastLendingDay = 1
  Calls = {c1}
  MTA = 4
  Rounding = 2
  Threshold = 1
  MTMs <- MTMset
  InitialMargins = {0, 3}
  HeldAmounts = {0, 1, 8}
  Deliveries = {2, 3}
  AgreedAmounts <- Agreed
  SettlementLag = 1
  LastMarginDay = 2
  a1 = a1
  a2 = a2
  a3 = a3
  Assets = {a1, a2, a3}
  Pledges = {p1, p2}
  Substitutions = {s1}
  Haircut <- Haircuts
  Prices <- AssetPrices
  Required = {60, 150}
  Accounts = {x1, x2}
  Positions = {q1, q2}
  Synthetics = {y1}
  Facilities = {f1}
  Rehyps = {h1, h2}
  NAVs = {1}
  Values = {1, 2}
  Draws = {2}
  FacilityLimit = 3
  Messages = {m1, m2}
  MessageAmounts = {1, 2}
  CreditLimits = {0, 3}
  RawEntries <- Lines
  NoReference = ""
  MaxBatch = 2
  MaxStatement = 4
  Sub = 3
  Target <- Targets
  Sweeps <- Sweeping
  HeaderMin <- HeaderFloor
  PoolBalances <- Reported
  TotalInterest = 5
  MaxTotal = 4
  Closings = {0, 3, 4}
  TrustAmounts = {2, 3}
  MaxPaid = 7
  CaseIds = {k1, k2}
  PlanIds = {p1}
  Principals = {10, 17, 60, 100}
  Terms = {1, 2, 3, 4}
  LargeLoan = 50
  RateTop = 1
  RateBottom = 12
  MaxCutOffs = 1
  Officers = {o1, o2, o3}
  Preparer = o1
  Desks = {d1, d2}
  MaxNotes = 2
  Reports = {"daily", "annual"}
  CronReports = {"daily"}
  MaxGap <- Gaps
  KeptRuns = 3
  LastReportDay = 5
  Classes = {"e", "b", "c"}
  Models <- ModelTargets
  Thresholds = {5, 1}
  Snapshots <- HoldingSnapshots
  RoboPlans = {p1, p2}
  Clients = {c1, c2}
  Managers = {r1}
  Recruits = {r2}
  Capacity = 1
  Aums = {1, 4}
  MaxManaged = 4
  Requests = {q1}
  HNW = 2
  VHNW = 3
  UHNW = 4
  Groups = {g1, g2}
  Entities = {e1}
  AssetKinds = {"eq", "bd"}
  HoldingSets <- Held
  Policies <- Bodies
  PolicyIds = {i1, i2}
  MaxOpen = 2
  Payouts = {1, 2}
  MaxPayouts = 4
  LastYear = 3
  Documents = {d1, d2}
  MaxViews = 1
  Customers = {u1, u2}
  Things = {t1, t2}
  Worths = {1, 2}
  Goals = {g1}
  GoalTarget = 10
  Savings = {0, 2, 10}
  Monthly = {0, 1, 3, 5}
  GoalDates = {2, 3}
  LastMonth = 4
  Heirs = {h1, h2, h3}
  Ranks = {"PRIMARY", "CONTINGENT"}
  Shares = {40, 60, 70}
  Papers = {d1}
  MaxReads = 1
  EstateAssets = {a1}
  EstateValues = {1}
  Claims = {k1, k2}
  Bequests = {q1}
  Pairs = {"EUR/USD", "USD/JPY"}
  Mid <- MidRates
  Spread <- SpreadRates
  Tenors = {"1Y"}
  Points <- ForwardPoints
  TenthPip <- TenthOfPip
  PlainTenthPip = 1
  Deals = {d1, d2}
  BaseAmounts = {150}
  Tiers <- CapitalTiers
  CreditBooks <- Exposures
  MarketRisks <- TradingRisks
  OperationalRisks <- Incomes
  LeverageExposures = {0, 200}
  Buffers = {0, 35}
  Tlacs <- LossAbsorbing
  People = {u1}
  Verifications = {1, 2}
  Handlers = {v1, v2}
  Results = {"passed", "failed"}
  Reviews = {"APPROVED"}
  MaxRefusals = 1
  Contexts <- MonitoredTransactions
  MaxMonitored = 2
  Instruments = {"bond"}
  FillReports <- ReportedFills
  LastPrices = {1, 3}
  Markings = {m1, m2}
  MaxFills = 2
  MaxFaults = 1
INVARIANTS
  OfficesTypeOK
  LendingSound
  CollateralSound
  PrimeSound
  TreasurySound
  AdviceSound
  HouseholdsSound
  DistributionsLeaveBalances
  LoanDeskSound
  ComplianceSound
  ReportingSound
PROPERTIES
  MarginSound
CHECK_DEADLOCK FALSE
