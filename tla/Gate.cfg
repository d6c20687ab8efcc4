\* The page, a program without the token, a site and an image another site embeds that
\* have it; two requests at once and one more in two ticks.
SPECIFICATION Spec
CONSTANTS
    page = page
    script = script
    site = site
    image = image
    Peers = {page, script, site, image}
    Sites = {site, image}
    Knows = {page, site, image}
    Origin <- MCOrigin
    FetchSite <- MCFetchSite
    Conns = {c1}
    Dev = TRUE
    Rate = 1
    Unit = 2
    Burst = 5
    MaxTime = 3
    None = None
INVARIANTS PaysItsOwn WindowBound ServedMayCall
