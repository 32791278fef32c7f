SPECIFICATION Spec
CONSTANTS
    issue = issue
    sell = sell
    recourse = recourse
    endorse = endorse
    accept = accept
    direct = direct
    pay = pay
    payee = payee
    mint = mint
    Own = mint
    PayRequest = pay
    Block <- MCBlock
    Chain <- MCChain
    Holder <- MCHolder
    Asks <- MCAsks
    Kind <- MCKind
    BillFiles = {"bill_file"}
    Source <- MCSource
    MaxFileSize = 1
    Shared <- MCShared
    Handler = {h1}
    Deadline = 0
    Maturity = 1
    MaxTime = 1
    MaxFaults = 2
INVARIANTS
    TypeOK
    RefusedMeansUnchanged
    AcceptedAgree
PROPERTIES
    TimeoutsAfterPayments
    PaymentsSettle
    MaturedReported
