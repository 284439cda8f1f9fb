SPECIFICATION LiveSpec
CONSTANTS
    Sources = {"protocol", "fallback"}
    Calls = {"refresh", "test", "credentials"}
    Hosts = {h1, h2}
    Addresses = {a1, a2, private}
    Allowed = {a1, a2}
    MaxRedirects = 3
    Deadline = 4
INVARIANTS HopsAreChecked DownloadBounded StatusTellsOutcome
PROPERTIES ImplementsFetchOrder
