SPECIFICATION Spec
INVARIANTS ProbesThrottled RedisSound AtMostOneMissed PoolSound  AnsweredOnce RequestsRouted SubscriptionsSound 
PROPERTIES TokensSound
CHECK_DEADLOCK FALSE
