CONSTANTS
    r1 = r1  r2 = r2
    Replicas = {r1, r2}
    Nobody = Nobody
    MaxTerms = 2
    MaxSends = 2
    Actions <- MCActions
    Known = {"suspend"}
    AllowedKinds = {"Kustomization"}
    AllowedNamespaces = {"apps", "kube-system"}
    Protected = {"kube-system"}
    MaxBlast = 1
    MaxPerWindow = 1
    Configs <- MCConfigs
SPECIFICATION Spec
PROPERTY TermStartsPaused
CHECK_DEADLOCK FALSE
