SPECIFICATION FairSpec
CONSTANTS
    Callers <- MCCallers
    Hosted <- MCHosted
    Host <- MCHost
    Programs <- MCPrograms
    Identity <- DraftIdentity
    Compiled <- DraftCompiled
    ExtensionHeaders <- MCExtensionHeaders
    PublicHosts <- MCPublicHosts
    Ceiling <- MCCeiling
    ModelName <- MCModelName
    Builds <- MCBuilds
    Drafts <- MCDrafts
    Auths <- MCAuths
    NormalForm <- MCNormalForm
    DefaultLimits <- MCCeiling
    Requests <- MCRequests
    CatalogLayers <- MCCatalogLayers
    ConfigLayers <- MCConfigLayers
INVARIANTS
    CredentialOnlyToItsDestination
    HeadersKeepTheirOwner
    LimitsOnlyTighten
    ModelContractsHold
    CatalogFactsAreTheLatest
    ConfigFollowsPrecedence
PROPERTIES
    AnswersAreAtomic
    WhatBuildsSends
    CallsReturn
CHECK_DEADLOCK FALSE
